---------------------------- MODULE Spec2Model ----------------------------
(***************************************************************************)
(* Adaptive vendor evaluation: the weight adjuster, the synthesizer and    *)
(* the orchestrator that runs them, as a state machine.                    *)
(*                                                                         *)
(* Weights and scores are Python floats in the source.  They are modelled  *)
(* as exact rationals <<n, d>> (d > 0, lowest terms), so "sums to 100" is  *)
(* the exact statement of which the float result is the rounding.          *)
(***************************************************************************)
EXTENDS Integers, Sequences, FiniteSets, TLC

(***************************************************************************)
(* Bounds of the model.                                                    *)
(***************************************************************************)
MaxCandidates == 2

(***************************************************************************)
(* Exact rational arithmetic.                                              *)
(***************************************************************************)
Abs(x) == IF x < 0 THEN -x ELSE x

RECURSIVE GCD(_, _)
GCD(a, b) == IF b = 0 THEN a ELSE GCD(b, a % b)

LCM(a, b) == (a \div GCD(a, b)) * b

Norm(n, d) ==
    LET g == GCD(Abs(n), d)
    IN  IF n = 0 THEN <<0, 1>> ELSE <<n \div g, d \div g>>

R(n) == <<n, 1>>

RAdd(a, b) ==
    LET l == LCM(a[2], b[2])
    IN  Norm(a[1] * (l \div a[2]) + b[1] * (l \div b[2]), l)

RMul(a, b) ==
    LET g1 == GCD(Abs(a[1]), b[2])
        g2 == GCD(Abs(b[1]), a[2])
    IN  IF a[1] = 0 \/ b[1] = 0 THEN <<0, 1>>
        ELSE Norm((a[1] \div g1) * (b[1] \div g2), (a[2] \div g2) * (b[2] \div g1))

\* a / b for b > 0
RDiv(a, b) == RMul(a, <<b[2], b[1]>>)

RLt(a, b) ==
    LET l == LCM(a[2], b[2])
    IN  a[1] * (l \div a[2]) < b[1] * (l \div b[2])

RLe(a, b) == ~RLt(b, a)

RMax(a, b) == IF RLt(a, b) THEN b ELSE a

RMin(a, b) == IF RLt(b, a) THEN b ELSE a

RECURSIVE RSumSeq(_)
RSumSeq(s) == IF s = <<>> THEN R(0) ELSE RAdd(Head(s), RSumSeq(Tail(s)))

(***************************************************************************)
(* The criteria, in the insertion order of the default_weights dict.       *)
(***************************************************************************)
CriteriaOrder ==
    << "sdk_quality", "api_quality", "integration_complexity", "performance",
       "uptime_reliability", "support_quality", "scalability", "pricing",
       "vendor_health", "compliance" >>

Criteria == { CriteriaOrder[i] : i \in DOMAIN CriteriaOrder }

\* The keys of a table, in dict order.
KeysInOrder(keys) == SelectSeq(CriteriaOrder, LAMBDA c : c \in keys)

\* sum(f[k] for k in keys), f a function into rationals
SumOver(f, keys) ==
    LET ks == KeysInOrder(keys)
    IN  RSumSeq([i \in DOMAIN ks |-> f[ks[i]]])

default_weights ==
    [c \in Criteria |->
        CASE c = "sdk_quality"            -> R(15)
          [] c = "api_quality"            -> R(10)
          [] c = "integration_complexity" -> R(15)
          [] c = "performance"            -> R(10)
          [] c = "uptime_reliability"     -> R(15)
          [] c = "support_quality"        -> R(10)
          [] c = "scalability"            -> R(10)
          [] c = "pricing"                -> R(10)
          [] c = "vendor_health"          -> R(5)
          [] c = "compliance"             -> R(0)]

(***************************************************************************)
(* Strings the model's inputs are drawn from, with str.lower() and the     *)
(* substring test `kw in s.lower()` given by table.                        *)
(***************************************************************************)
Lower(s) ==
    CASE s = "Security"    -> "security"
      [] s = "Integration" -> "integration"
      [] s = "Fintech"     -> "fintech"
      [] s = "Outage"      -> "outage"
      [] s = "Go"          -> "go"
      [] s = "Great"       -> "great"
      [] s = "Sdk Quality"            -> "sdk quality"
      [] s = "Api Quality"            -> "api quality"
      [] s = "Integration Complexity" -> "integration complexity"
      [] s = "Performance"            -> "performance"
      [] s = "Uptime Reliability"     -> "uptime reliability"
      [] s = "Support Quality"        -> "support quality"
      [] s = "Scalability"            -> "scalability"
      [] s = "Pricing"                -> "pricing"
      [] s = "Vendor Health"          -> "vendor health"
      [] s = "Compliance"             -> "compliance"
      [] OTHER             -> s

\* the lower-case keywords that occur as substrings of the lower-case string s
SubstringsOf(s) ==
    CASE s = "security"               -> {"security"}
      [] s = "fintech"                -> {"fintech"}
      [] s = "uptime"                 -> {"uptime"}
      [] s = "integration"            -> {"integration"}
      [] s = "easy integration"       -> {"integration", "easy integration"}
      [] s = "cost-effective"         -> {"cost-effective"}
      [] s = "pricing"                -> {"pricing"}
      [] s = "uptime_reliability"     -> {"uptime", "uptime_reliability"}
      [] s = "integration_complexity" -> {"integration", "integration_complexity"}
      [] s = "uptime reliability"     -> {"uptime", "reliability", "uptime reliability"}
      [] s = "integration complexity" -> {"integration", "integration complexity"}
      [] s = "vendor_health"          -> {"vendor_health"}
      [] s = "compliance"             -> {"compliance"}
      [] s = "unreliable"             -> {"unreliable", "reliable"}
      [] s = "inexpensive"            -> {"expensive"}
      [] s = "go"                     -> {"go"}
      [] s = "good"                   -> {"go", "good"}
      [] s = "golang"                 -> {"go", "golang"}
      [] OTHER                        -> {s}

\* needle.lower() in haystack.lower()
InLower(needle, haystack) == Lower(needle) \in SubstringsOf(Lower(haystack))

(***************************************************************************)
(* DynamicWeightAdjuster.get_initial_weights: the weight of each criterion *)
(***************************************************************************)
CompliancePass(w, context) ==
    IF context.compliance # <<>>
    THEN LET w1          == [w EXCEPT !["compliance"] = R(15)]
             total_other == SumOver(w1, Criteria \ {"compliance"})
             factor      == RDiv(RAdd(R(100), RMul(R(-1), w1["compliance"])), total_other)
         IN  [c \in Criteria |->
                 IF c # "compliance" THEN RMul(w1[c], factor) ELSE w1[c]]
    ELSE w

\* "security" in str(priorities).lower() or "fintech" in domain.lower()
SecurityOrFintech(context) ==
    \/ \E i \in DOMAIN context.priorities : InLower("security", context.priorities[i])
    \/ InLower("fintech", context.domain)

PriorityPass(w, context) ==
    IF SecurityOrFintech(context)
    THEN LET w1 == [w EXCEPT !["compliance"]         = RAdd(@, R(5)),
                             !["uptime_reliability"] = RAdd(@, R(5)),
                             !["vendor_health"]      = RAdd(@, R(3))]
             total == SumOver(w1, Criteria)
         IN  [c \in Criteria |-> RMul(RDiv(w1[c], total), R(100))]
    ELSE w

get_initial_weights(context) ==
    PriorityPass(CompliancePass(default_weights, context), context)


(***************************************************************************)
(* Analysis texts.  A text is a sequence of words (a word may be a short   *)
(* phrase); the empty sequence is the empty string.  Lengths are counted   *)
(* in words.                                                               *)
(***************************************************************************)
Min(a, b) == IF a < b THEN a ELSE b

\* text[:n]
Prefix(text, n) == SubSeq(text, 1, Min(n, Len(text)))

\* DynamicWeightAdjuster._indicates_issue
indicates_issue(text, keywords) ==
    \E i \in DOMAIN text : SubstringsOf(Lower(text[i])) \cap keywords # {}

\* MultiCriteriaResearcher._check_tech_stack_support: the dict, as the
\* sequence of its items in insertion order
check_tech_stack_support(analysis, tech_stack) ==
    [i \in DOMAIN tech_stack |->
        [tech      |-> tech_stack[i],
         supported |-> \E j \in DOMAIN analysis :
                           Lower(tech_stack[i]) \in SubstringsOf(Lower(analysis[j]))]]

(***************************************************************************)
(* DynamicWeightAdjuster._extract_significant_discoveries                  *)
(***************************************************************************)
map_risk_to_criterion(risk_type) ==
    CASE risk_type = "maintainer_health" -> "vendor_health"
      [] risk_type = "pricing_trap"      -> "pricing"
      [] risk_type = "vendor_lockin"     -> "integration_complexity"
      [] OTHER                           -> "vendor_health"

UptimeDiscovery(f) ==
    IF indicates_issue(f.analysis["uptime_reliability"],
                       {"outage", "downtime", "incident", "unavailable"})
    THEN << [type               |-> "uptime_issue",
             vendor             |-> f.vendor_name,
             description        |-> <<f.vendor_name, "has recent uptime issues">>,
             evidence           |-> Prefix(f.analysis["uptime_reliability"], 200),
             affected_criterion |-> "uptime_reliability"] >>
    ELSE <<>>

SdkDiscovery(f) ==
    LET sdk_support  == f.tech_stack_support
        missing      == SelectSeq(sdk_support, LAMBDA it : ~it.supported)
        missing_sdks == [i \in DOMAIN missing |-> missing[i].tech]
    IN  IF sdk_support # <<>> /\ missing_sdks # <<>>
        THEN << [type               |-> "missing_sdk",
                 vendor             |-> f.vendor_name,
                 description        |-> <<f.vendor_name, "missing SDK for">> \o missing_sdks,
                 evidence           |-> <<"No official support for">> \o missing_sdks,
                 affected_criterion |-> "integration_complexity"] >>
        ELSE <<>>

PricingDiscovery(f) ==
    IF indicates_issue(f.analysis["pricing"], {"expensive", "jump", "hidden fee", "trap"})
    THEN << [type               |-> "pricing_concern",
             vendor             |-> f.vendor_name,
             description        |-> <<f.vendor_name, "has pricing concerns">>,
             evidence           |-> Prefix(f.analysis["pricing"], 200),
             affected_criterion |-> "pricing"] >>
    ELSE <<>>

RiskDiscoveries(f) ==
    [i \in DOMAIN f.hidden_risks |->
        [type               |-> "hidden_risk_" \o f.hidden_risks[i].type,
         vendor             |-> f.vendor_name,
         description        |-> <<f.vendor_name>> \o Prefix(f.hidden_risks[i].description, 100),
         evidence           |-> f.hidden_risks[i].evidence,
         affected_criterion |-> map_risk_to_criterion(f.hidden_risks[i].type)]]

ComplianceDiscovery(f) ==
    IF /\ f.required # <<>>
       /\ indicates_issue(f.analysis["compliance"], {"not certified", "lacking", "missing"})
    THEN << [type               |-> "compliance_gap",
             vendor             |-> f.vendor_name,
             description        |-> <<f.vendor_name, "may have compliance gaps">>,
             evidence           |-> Prefix(f.analysis["compliance"], 200),
             affected_criterion |-> "compliance"] >>
    ELSE <<>>

\* the same discoveries, the compliance rule placed before the risk rule
DiscoveriesComplianceFirst(f) ==
    UptimeDiscovery(f) \o SdkDiscovery(f) \o PricingDiscovery(f)
        \o ComplianceDiscovery(f) \o RiskDiscoveries(f)

DiscoveriesOf(f) ==
    UptimeDiscovery(f) \o SdkDiscovery(f) \o PricingDiscovery(f)
        \o RiskDiscoveries(f) \o ComplianceDiscovery(f)

RECURSIVE extract_significant_discoveries(_)
extract_significant_discoveries(research_findings) ==
    IF research_findings = <<>> THEN <<>>
    ELSE DiscoveriesOf(Head(research_findings))
            \o extract_significant_discoveries(Tail(research_findings))

(***************************************************************************)
(* DynamicWeightAdjuster._calculate_adjustment_amount                      *)
(***************************************************************************)
base_adjustment(discovery_type) ==
    CASE discovery_type = "uptime_issue"                  -> R(10)
      [] discovery_type = "missing_sdk"                   -> R(8)
      [] discovery_type = "pricing_concern"               -> R(7)
      [] discovery_type = "compliance_gap"                -> R(12)
      [] discovery_type = "hidden_risk_maintainer_health" -> R(5)
      [] discovery_type = "hidden_risk_pricing_trap"      -> R(8)
      [] discovery_type = "hidden_risk_vendor_lockin"     -> R(4)
      [] OTHER                                            -> R(5)

calculate_adjustment_amount(discovery, context) ==
    IF \E i \in DOMAIN context.priorities :
           InLower(context.priorities[i], discovery.affected_criterion)
    THEN RMul(base_adjustment(discovery.type), <<3, 2>>)
    ELSE base_adjustment(discovery.type)

(***************************************************************************)
(* DynamicWeightAdjuster._process_discovery.  The Optional result is a     *)
(* sequence: <<>> for None, <<adjustment>> otherwise.  weights maps each   *)
(* key of the table to the criterion's current weight.                     *)
(***************************************************************************)
\* the criterion a discovery adjusts: <<>> when there is none in the table
ResolveToDefault(discovery, keys) ==
    IF discovery.affected_criterion \in keys
    THEN <<discovery.affected_criterion>> ELSE <<"vendor_health">>

ResolveCriterion(discovery, keys) ==
    IF discovery.affected_criterion = "" \/ discovery.affected_criterion \notin keys
    THEN <<>> ELSE <<discovery.affected_criterion>>

Unclamped(weight_after) == weight_after

\* the lower bound alone, whatever the sum
ClampToFloor(weight_after) == R(5)

\* max(5.0, min(40.0, weight_after))
Clamp(weight_after) == RMax(R(5), RMin(R(40), weight_after))

additional_research(discovery_type) ==
    CASE discovery_type = "uptime_issue" -> <<"SLA investigation">>
      [] discovery_type = "missing_sdk"  -> <<"Custom integration effort estimate">>
      [] OTHER                           -> <<>>

process_discovery(discovery, weights, context) ==
    LET resolved == ResolveCriterion(discovery, DOMAIN weights)
    IN  IF resolved = <<>> THEN <<>>
        ELSE
          LET affected_criterion == resolved[1]
              adjustment_amount  == calculate_adjustment_amount(discovery, context)
              weight_before      == weights[affected_criterion]
              weight_after       == Clamp(RAdd(weight_before, adjustment_amount))
          IN  IF adjustment_amount = R(0) THEN <<>>
              ELSE << [criterion     |-> affected_criterion,
                       discovery     |-> discovery.description,
                       evidence      |-> discovery.evidence,
                       weight_before |-> weight_before,
                       weight_after  |-> weight_after,
                       additional_research_triggered |->
                           additional_research(discovery.type)] >>

(***************************************************************************)
(* DynamicWeightAdjuster._normalize_weights                                *)
(***************************************************************************)
\* `100.0 / len(weights)` in the branch `total == 0`: ZeroDivisionError on a
\* table without entries, whose total is sum(()) = 0
normalize_raises(weights) == DOMAIN weights = {}

NormalizeNot(weights) == weights

normalize_weights(weights) ==
    LET keys  == DOMAIN weights
        total == SumOver(weights, keys)
    IN  IF total = R(0)
        THEN [c \in keys |-> RDiv(R(100), R(Cardinality(keys)))]
        ELSE LET factor == RDiv(R(100), total)
             IN  [c \in keys |-> RMul(weights[c], factor)]

(***************************************************************************)
(* adjust_weights run to completion without interruption: the result one   *)
(* run produces when executed alone.                                       *)
(***************************************************************************)
RECURSIVE AdjustLoop(_, _, _, _)
AdjustLoop(ds, weights, adjs, context) ==
    IF ds = <<>> THEN [weights |-> weights, adjustments |-> adjs]
    ELSE LET a == process_discovery(Head(ds), weights, context)
         IN  IF a = <<>> THEN AdjustLoop(Tail(ds), weights, adjs, context)
             ELSE AdjustLoop(Tail(ds),
                             [weights EXCEPT ![a[1].criterion] = a[1].weight_after],
                             Append(adjs, a[1]), context)

AdjustAlone(initial, findings, context, enabled) ==
    IF ~enabled THEN [weights |-> initial, adjustments |-> <<>>]
    ELSE LET res == AdjustLoop(extract_significant_discoveries(findings),
                               initial, <<>>, context)
         IN  [weights |-> normalize_weights(res.weights), adjustments |-> res.adjustments]

(***************************************************************************)
(* RecommendationSynthesizer._score_from_analysis                          *)
(***************************************************************************)
positive_words ==
    { "excellent", "great", "strong", "robust", "high quality", "reliable", "fast",
      "comprehensive" }

negative_words ==
    { "poor", "weak", "limited", "slow", "unreliable", "lacking", "difficult",
      "complex", "expensive" }

\* sum(analysis_lower.count(word) for word in words)
CountEveryOccurrence(analysis, words) ==
    Cardinality({ iw \in (DOMAIN analysis) \X words :
                    iw[2] \in SubstringsOf(Lower(analysis[iw[1]])) })

\* sum(1 for word in words if word in analysis_lower)
CountWords(analysis, words) ==
    Cardinality({ w \in words :
                    \E i \in DOMAIN analysis : w \in SubstringsOf(Lower(analysis[i])) })

score_from_analysis(analysis, inverse) ==
    IF analysis = <<>> THEN R(5)
    ELSE LET p0 == CountWords(analysis, positive_words)
             n0 == CountWords(analysis, negative_words)
             positive_count == IF inverse THEN n0 ELSE p0
             negative_count == IF inverse THEN p0 ELSE n0
             score == IF positive_count > negative_count
                      THEN 7 + Min(positive_count, 3)
                      ELSE IF negative_count > positive_count
                           THEN 5 - Min(negative_count, 4)
                           ELSE 6
         IN  RMax(R(1), RMin(R(10), R(score)))

(***************************************************************************)
(* Formatting.                                                             *)
(***************************************************************************)
\* s.replace("_", " ").title()
Title(s) ==
    CASE s = "sdk_quality"            -> "Sdk Quality"
      [] s = "api_quality"            -> "Api Quality"
      [] s = "integration_complexity" -> "Integration Complexity"
      [] s = "performance"            -> "Performance"
      [] s = "uptime_reliability"     -> "Uptime Reliability"
      [] s = "support_quality"        -> "Support Quality"
      [] s = "scalability"            -> "Scalability"
      [] s = "pricing"                -> "Pricing"
      [] s = "vendor_health"          -> "Vendor Health"
      [] s = "compliance"             -> "Compliance"
      [] s = "maintainer_health"      -> "Maintainer Health"
      [] s = "pricing_trap"           -> "Pricing Trap"
      [] s = "vendor_lockin"          -> "Vendor Lockin"
      [] s = "acquisition"            -> "Acquisition"
      [] OTHER                        -> s

\* f"{x:.1f}": x in tenths, rounded half to even
Fmt1(x) ==
    LET q   == (10 * x[1]) \div x[2]
        rem == (10 * x[1]) % x[2]
    IN  IF 2 * rem < x[2] THEN q
        ELSE IF 2 * rem > x[2] THEN q + 1
        ELSE IF q % 2 = 0 THEN q ELSE q + 1

(***************************************************************************)
(* list.sort(key=..., reverse=True) and sorted(..., reverse=True): stable, *)
(* on a sequence of records with a rational field key.                     *)
(***************************************************************************)
RECURSIVE InsertDesc(_, _)
InsertDesc(sorted, x) ==
    IF sorted = <<>> THEN <<x>>
    ELSE IF RLt(Head(sorted).key, x.key) THEN <<x>> \o sorted
         ELSE <<Head(sorted)>> \o InsertDesc(Tail(sorted), x)

RECURSIVE SortDescInto(_, _)
SortDescInto(sorted, rest) ==
    IF rest = <<>> THEN sorted
    ELSE SortDescInto(InsertDesc(sorted, Head(rest)), Tail(rest))

SortDesc(seq) == SortDescInto(<<>>, seq)

\* a sort that is ascending and then reversed: equal keys end up swapped
RECURSIVE InsertBeforeTies(_, _)
InsertBeforeTies(sorted, x) ==
    IF sorted = <<>> THEN <<x>>
    ELSE IF RLe(Head(sorted).key, x.key) THEN <<x>> \o sorted
         ELSE <<Head(sorted)>> \o InsertBeforeTies(Tail(sorted), x)

RECURSIVE SortTiesReversedInto(_, _)
SortTiesReversedInto(sorted, rest) ==
    IF rest = <<>> THEN sorted
    ELSE SortTiesReversedInto(InsertBeforeTies(sorted, Head(rest)), Tail(rest))

(***************************************************************************)
(* RecommendationSynthesizer._score_vendors                                *)
(***************************************************************************)
Last3(seq) == SubSeq(seq, IF Len(seq) > 3 THEN Len(seq) - 2 ELSE 1, Len(seq))

format_strength(criterion, score) == <<"Strong", Title(criterion), Fmt1(score)>>

format_weakness(criterion, score) == <<"Weaker", Title(criterion), Fmt1(score)>>

\* the same lists, the three highest and the three lowest scores listed
\* whatever their value
extract_without_thresholds(findings, scores) ==
    LET items == [i \in DOMAIN CriteriaOrder |->
                     [key |-> scores[CriteriaOrder[i]], criterion |-> CriteriaOrder[i]]]
        sorted_criteria == SortDesc(items)
        top        == Prefix(sorted_criteria, 3)
        bottom     == Last3(sorted_criteria)
        strengths  == [i \in DOMAIN top |-> format_strength(top[i].criterion, top[i].key)]
        weak_score == [i \in DOMAIN bottom |->
                          format_weakness(bottom[i].criterion, bottom[i].key)]
        weak_risk  == [i \in DOMAIN findings.hidden_risks |->
                          <<Title(findings.hidden_risks[i].type)>>
                              \o Prefix(findings.hidden_risks[i].description, 80)]
    IN  [strengths  |-> Prefix(strengths, 3),
         weaknesses |-> Prefix(weak_score \o weak_risk, 3)]

\* the same lists, the hidden risks placed before the score-derived weaknesses
extract_risks_first(findings, scores) ==
    LET items == [i \in DOMAIN CriteriaOrder |->
                     [key |-> scores[CriteriaOrder[i]], criterion |-> CriteriaOrder[i]]]
        sorted_criteria == SortDesc(items)
        top        == SelectSeq(Prefix(sorted_criteria, 3), LAMBDA it : RLe(R(7), it.key))
        bottom     == SelectSeq(Last3(sorted_criteria), LAMBDA it : RLe(it.key, R(5)))
        strengths  == [i \in DOMAIN top |-> format_strength(top[i].criterion, top[i].key)]
        weak_score == [i \in DOMAIN bottom |->
                          format_weakness(bottom[i].criterion, bottom[i].key)]
        weak_risk  == [i \in DOMAIN findings.hidden_risks |->
                          <<Title(findings.hidden_risks[i].type)>>
                              \o Prefix(findings.hidden_risks[i].description, 80)]
    IN  [strengths  |-> Prefix(strengths, 3),
         weaknesses |-> Prefix(weak_risk \o weak_score, 3)]

extract_strengths_weaknesses(findings, scores) ==
    LET items == [i \in DOMAIN CriteriaOrder |->
                     [key |-> scores[CriteriaOrder[i]], criterion |-> CriteriaOrder[i]]]
        sorted_criteria == SortDesc(items)
        top        == SelectSeq(Prefix(sorted_criteria, 3), LAMBDA it : RLe(R(7), it.key))
        bottom     == SelectSeq(Last3(sorted_criteria), LAMBDA it : RLe(it.key, R(5)))
        strengths  == [i \in DOMAIN top |-> format_strength(top[i].criterion, top[i].key)]
        weak_score == [i \in DOMAIN bottom |->
                          format_weakness(bottom[i].criterion, bottom[i].key)]
        weak_risk  == [i \in DOMAIN findings.hidden_risks |->
                          <<Title(findings.hidden_risks[i].type)>>
                              \o Prefix(findings.hidden_risks[i].description, 80)]
    IN  [strengths  |-> Prefix(strengths, 3),
         weaknesses |-> Prefix(weak_score \o weak_risk, 3)]

criterion_scores(findings) ==
    [c \in Criteria |->
        score_from_analysis(findings.analysis[c],
                            c \in {"integration_complexity", "pricing"})]

\* sum(scores[c] * weights[c] for c in scores if c in weights)
weighted_percent(scores, weights) ==
    LET ks == KeysInOrder(DOMAIN scores \cap DOMAIN weights)
    IN  RSumSeq([i \in DOMAIN ks |-> RMul(scores[ks[i]], weights[ks[i]])])

\* sum(scores[c] * (weights[c] / 100.0) for c in scores if c in weights)
weighted_score(scores, weights) ==
    LET ks == KeysInOrder(DOMAIN scores \cap DOMAIN weights)
    IN  RSumSeq([i \in DOMAIN ks |-> RMul(scores[ks[i]], RDiv(weights[ks[i]], R(100)))])

vendor_score(findings, weights) ==
    LET scores == criterion_scores(findings)
        sw     == extract_strengths_weaknesses(findings, scores)
    IN  [vendor_name      |-> findings.vendor_name,
         criterion_scores |-> scores,
         weighted_score   |-> weighted_score(scores, weights),
         strengths        |-> sw.strengths,
         weaknesses       |-> sw.weaknesses,
         evidence         |->
             [c \in {"sdk_quality", "api_quality", "uptime_reliability", "pricing"} |->
                 Prefix(findings.analysis[c], 150)]]

Unkey(sorted) == [i \in DOMAIN sorted |-> sorted[i].item]

RankTiesReversed(vendor_scores) ==
    Unkey(SortTiesReversedInto(<<>>,
        [i \in DOMAIN vendor_scores |->
            [key |-> vendor_scores[i].weighted_score, item |-> vendor_scores[i]]]))

\* vendor_scores.sort(key=lambda x: x.weighted_score, reverse=True)
rank_vendor_scores(vendor_scores) ==
    Unkey(SortDesc(
        [i \in DOMAIN vendor_scores |->
            [key |-> vendor_scores[i].weighted_score, item |-> vendor_scores[i]]]))

score_vendors(research_findings, weights) ==
    rank_vendor_scores([i \in DOMAIN research_findings |->
                           vendor_score(research_findings[i], weights)])

(***************************************************************************)
(* _extract_key_discoveries, _collect_hidden_risks, the comparison matrix  *)
(***************************************************************************)
extract_key_discoveries(weight_adjustments) ==
    [i \in DOMAIN weight_adjustments |->
        LET adj == weight_adjustments[i]
        IN  [finding   |-> adj.discovery,
             evidence  |-> Prefix(adj.evidence, 150),
             impact    |-> <<"Increased", Title(adj.criterion),
                             Fmt1(adj.weight_before), Fmt1(adj.weight_after)>>,
             triggered |-> IF adj.additional_research_triggered # <<>>
                           THEN adj.additional_research_triggered ELSE <<"None">>]]

RECURSIVE collect_hidden_risks(_)
collect_hidden_risks(research_findings) ==
    IF research_findings = <<>> THEN <<>>
    ELSE LET f == Head(research_findings)
         IN  [i \in DOMAIN f.hidden_risks |->
                 [type        |-> f.hidden_risks[i].type,
                  severity    |-> f.hidden_risks[i].severity,
                  description |-> f.hidden_risks[i].description,
                  evidence    |-> f.hidden_risks[i].evidence,
                  vendor      |-> f.vendor_name]]
             \o collect_hidden_risks(Tail(research_findings))

\* the table as its rows: the header, one row per listed criterion, the totals
\* the same matrix, no row left out for a weight under 1.0
matrix_of_top_eight(vendor_scores, weights) ==
    LET ks == KeysInOrder(DOMAIN weights)
        sorted_weights == SortDesc([i \in DOMAIN ks |->
                                       [key |-> weights[ks[i]], criterion |-> ks[i]]])
        listed == Prefix(sorted_weights, 8)
    IN  [header |-> [i \in DOMAIN vendor_scores |-> vendor_scores[i].vendor_name],
         rows   |-> [i \in DOMAIN listed |->
                        [criterion |-> Title(listed[i].criterion),
                         weight    |-> Fmt1(listed[i].key),
                         scores    |-> [j \in DOMAIN vendor_scores |->
                                           LET cs == vendor_scores[j].criterion_scores
                                               c  == listed[i].criterion
                                           IN  Fmt1(IF c \in DOMAIN cs THEN cs[c]
                                                    ELSE R(0))]]],
         total  |-> [j \in DOMAIN vendor_scores |-> Fmt1(vendor_scores[j].weighted_score)]]

generate_comparison_matrix(vendor_scores, weights) ==
    LET ks == KeysInOrder(DOMAIN weights)
        sorted_weights == SortDesc([i \in DOMAIN ks |->
                                       [key |-> weights[ks[i]], criterion |-> ks[i]]])
        listed == SelectSeq(Prefix(sorted_weights, 8), LAMBDA it : ~RLt(it.key, R(1)))
    IN  [header |-> [i \in DOMAIN vendor_scores |-> vendor_scores[i].vendor_name],
         rows   |-> [i \in DOMAIN listed |->
                        [criterion |-> Title(listed[i].criterion),
                         weight    |-> Fmt1(listed[i].key),
                         scores    |-> [j \in DOMAIN vendor_scores |->
                                           LET cs == vendor_scores[j].criterion_scores
                                               c  == listed[i].criterion
                                           IN  Fmt1(IF c \in DOMAIN cs THEN cs[c]
                                                    ELSE R(0))]]],
         total  |-> [j \in DOMAIN vendor_scores |-> Fmt1(vendor_scores[j].weighted_score)]]

(***************************************************************************)
(* The Narrative Oracle's reply: a sequence of lines.  The string methods  *)
(* _parse_recommendation applies to a line are given by table.             *)
(***************************************************************************)
\* line.strip()
StripLine(line) ==
    CASE line = "  RECOMMENDED VENDOR:   " -> "RECOMMENDED VENDOR:"
      [] line = "  "                       -> ""
      [] OTHER                             -> line

\* the section markers m with `m in line.upper()`
MarkersIn(line) ==
    CASE line = "RECOMMENDED VENDOR: B"     -> {"RECOMMENDED VENDOR:"}
      [] line = "Recommended Vendor: A"     -> {"RECOMMENDED VENDOR:"}
      [] line = "RECOMMENDED VENDOR: Zeta"  -> {"RECOMMENDED VENDOR:"}
      [] line = "RECOMMENDED VENDOR:"       -> {"RECOMMENDED VENDOR:"}
      [] line = "RATIONALE:"                -> {"RATIONALE:"}
      [] line = "TRADE-OFFS:"               -> {"TRADE-OFFS:"}
      [] line = "ALTERNATIVES:"             -> {"ALTERNATIVES:"}
      [] line = "NEXT STEPS:"               -> {"NEXT STEPS:"}
      [] OTHER                              -> {}

\* line.split(":", 1)[1].strip()
AfterFirstColon(line) ==
    CASE line = "RECOMMENDED VENDOR: B"     -> "B"
      [] line = "Recommended Vendor: A"     -> "A"
      [] line = "RECOMMENDED VENDOR: Zeta"  -> "Zeta"
      [] OTHER                              -> ""

StartsWithDash(line) == line \in {"- weaker support", "- If cost matters: Consider A"}

StartsWithDigit(line) == line \in {"1. run a pilot"}

\* line.lstrip("- ") and line.lstrip("0123456789.-) ")
LStrip(line) ==
    CASE line = "- weaker support"              -> "weaker support"
      [] line = "- If cost matters: Consider A" -> "If cost matters: Consider A"
      [] line = "1. run a pilot"                -> "run a pilot"
      [] OTHER                                  -> line

(***************************************************************************)
(* RecommendationSynthesizer._parse_recommendation                         *)
(***************************************************************************)
ParseLine(st, raw) ==
    LET line == StripLine(raw)
        ms   == MarkersIn(line)
    IN  IF "RECOMMENDED VENDOR:" \in ms
        THEN [st EXCEPT !.recommended_vendor = AfterFirstColon(line),
                        !.current_section = "None"]
        ELSE IF "RATIONALE:" \in ms THEN [st EXCEPT !.current_section = "rationale"]
        ELSE IF "TRADE-OFFS:" \in ms \/ "TRADE-OFF:" \in ms
             THEN [st EXCEPT !.current_section = "tradeoffs"]
        ELSE IF "ALTERNATIVES:" \in ms \/ "ALTERNATIVE:" \in ms
             THEN [st EXCEPT !.current_section = "alternatives"]
        ELSE IF "NEXT STEPS:" \in ms THEN [st EXCEPT !.current_section = "nextsteps"]
        ELSE IF line # ""
             THEN IF st.current_section = "rationale"
                  THEN [st EXCEPT !.rationale = Append(@, line)]
                  ELSE IF st.current_section = "tradeoffs" /\ StartsWithDash(line)
                  THEN [st EXCEPT !.trade_offs = Append(@, LStrip(line))]
                  ELSE IF st.current_section = "alternatives" /\ StartsWithDash(line)
                  THEN [st EXCEPT !.alternatives = Append(@, [text |-> LStrip(line)])]
                  ELSE IF st.current_section = "nextsteps"
                          /\ (StartsWithDash(line) \/ StartsWithDigit(line))
                  THEN [st EXCEPT !.next_steps = Append(@, LStrip(line))]
                  ELSE st
             ELSE st

RECURSIVE ParseLines(_, _)
ParseLines(st, lines) ==
    IF lines = <<>> THEN st ELSE ParseLines(ParseLine(st, Head(lines)), Tail(lines))

\* the top-ranked vendor replaces whatever the text names
TopRankedAlways(st, vendor_scores, candidates) ==
    IF vendor_scores # <<>>
    THEN [st EXCEPT !.recommended_vendor = vendor_scores[1].vendor_name]
    ELSE st

\* the fallback names the first candidate of the input instead
FallbackToFirstCandidate(st, vendor_scores, candidates) ==
    IF st.recommended_vendor = "" /\ vendor_scores # <<>>
    THEN [st EXCEPT !.recommended_vendor = candidates[1],
                    !.rationale = << <<"Recommended based on highest weighted score",
                                       Fmt1(vendor_scores[1].weighted_score)>> >>]
    ELSE st

\* `if not recommended_vendor and vendor_scores`
Fallback(st, vendor_scores, candidates) ==
    IF st.recommended_vendor = "" /\ vendor_scores # <<>>
    THEN [st EXCEPT !.recommended_vendor = vendor_scores[1].vendor_name,
                    !.rationale = << <<"Recommended based on highest weighted score",
                                       Fmt1(vendor_scores[1].weighted_score)>> >>]
    ELSE st

format_context_summary(ctx) ==
    (IF ctx.tech_stack # <<>> THEN << <<"Tech Stack">> \o ctx.tech_stack >> ELSE <<>>)
    \o (IF ctx.domain # "" THEN << <<"Domain", ctx.domain>> >> ELSE <<>>)
    \o (IF ctx.priorities # <<>> THEN << <<"Priorities">> \o ctx.priorities >> ELSE <<>>)

\* text: recommendation_text; cands: candidates; kd: key_discoveries;
\* wa: weight_adjustments; fw: the values of final_weights; vs: vendor_scores;
\* cm: comparison_matrix; hr: hidden_risks
parse_recommendation(text, ctx, cands, kd, wa, fw, vs, cm, hr) ==
    LET st0 == [recommended_vendor |-> "", rationale |-> <<>>, trade_offs |-> <<>>,
                alternatives |-> <<>>, next_steps |-> <<>>, current_section |-> "None"]
        st  == Fallback(ParseLines(st0, text), vs, cands)
    IN  [recommended_vendor |-> st.recommended_vendor,
         rationale          |-> st.rationale,
         trade_offs         |-> st.trade_offs,
         alternatives       |-> st.alternatives,
         next_steps         |-> st.next_steps,
         context_summary    |-> format_context_summary(ctx),
         candidates         |-> cands,
         key_discoveries    |-> kd,
         weight_adjustments |-> wa,
         final_weights      |-> fw,
         vendor_scores      |-> vs,
         comparison_matrix  |-> cm,
         hidden_risks       |-> hr]

(***************************************************************************)
(* State.  Every per-run variable is a function of the run; a run is one   *)
(* call of EvaluationOrchestrator.run_evaluation (or, in SpecAdjust, one   *)
(* call of adjust_weights).  CriterionWeight objects live in heap, and a   *)
(* weight table (a dict) maps each of its keys to a reference.             *)
(***************************************************************************)
VARIABLES
    enable_dynamic_weighting,   \* config.agent.enable_dynamic_weighting
    pc,                         \* where each run is
    context,                    \* the evaluation context of each run
    heap,                       \* reference -> CriterionWeight object
    research_findings,          \* List[ResearchFindings]
    initial_weights,            \* the caller's table
    current_weights,            \* adjust_weights: the working table
    discoveries,                \* adjust_weights: the extracted discoveries
    idx,                        \* adjust_weights: next discovery of the loop
    adjustments,                \* adjust_weights: the records so far
    final_weights,              \* returned table
    weight_adjustments,         \* returned adjustment list
    candidates,                 \* run_evaluation: candidate_names
    pending,                    \* research_candidates: result slot of each task
    vendor_scores,              \* synthesize_recommendation: the ranking
    key_discoveries,            \* synthesize_recommendation
    hidden_risks,               \* synthesize_recommendation
    comparison_matrix,          \* synthesize_recommendation
    attempt,                    \* chat_completion: failed attempts of the call
    recommendation_text,        \* the Narrative Oracle's reply
    recommendation,             \* the FinalRecommendation returned
    error,                      \* the exception run_evaluation re-raised
    conversation_states,        \* skill_handler._conversation_states
    calls                       \* the handle_message calls made so far

vars == << enable_dynamic_weighting, pc, context, heap, research_findings,
           initial_weights, current_weights, discoveries, idx, adjustments,
           final_weights, weight_adjustments, candidates, pending, vendor_scores,
           key_discoveries, hidden_risks, comparison_matrix, attempt,
           recommendation_text, recommendation, error, conversation_states,
           calls >>

sessionVars  == << conversation_states, calls >>
adjustLocals == << current_weights, discoveries, idx, adjustments >>
adjustResult == << final_weights, weight_adjustments >>
researchVars == << candidates, pending >>
synthVars    == << vendor_scores, key_discoveries, hidden_risks, comparison_matrix,
                  attempt, recommendation_text, recommendation >>

Runs == DOMAIN pc

\* the current weight of every key of a table
ValuesOf(table) == [c \in DOMAIN table |-> heap[table[c]].current_weight]

Restrict(f, keys) == [c \in keys |-> f[c]]

(***************************************************************************)
(* References.  get_initial_weights and the copy in adjust_weights each    *)
(* construct new CriterionWeight objects for the run.                      *)
(***************************************************************************)
SharedRef(r, c) == <<0, "initial", c>>

InitialRef(r, c) == <<r, "initial", c>>

AliasRef(r, c) == <<r, "initial", c>>

CopyRef(r, c) == <<r, "current", c>>

\* the objects of a table built from weight values
NewTable(r, values) == [c \in DOMAIN values |-> InitialRef(r, c)]

NewObjects(r, values) ==
    [ref \in { InitialRef(r, c) : c \in DOMAIN values } |->
        LET c == CHOOSE k \in DOMAIN values : InitialRef(r, k) = ref
        IN  [name           |-> c,
             initial_weight |-> values[c],
             current_weight |-> values[c],
             triggered_by   |-> <<>>]]

(***************************************************************************)
(* DynamicWeightAdjuster.adjust_weights, one action per stretch between    *)
(* awaits.                                                                 *)
(***************************************************************************)
NeverSkip(enabled) == FALSE

\* `if not self.enable_dynamic_weighting`
SkipAdjustment(enabled) == ~enabled

AdjustBegin(r) ==
    /\ pc[r] = "adjust_weights"
    /\ IF SkipAdjustment(enable_dynamic_weighting)
       THEN /\ final_weights' = [final_weights EXCEPT ![r] = initial_weights[r]]
            /\ weight_adjustments' = [weight_adjustments EXCEPT ![r] = <<>>]
            /\ pc' = [pc EXCEPT ![r] = "adjusted"]
            /\ UNCHANGED << heap, adjustLocals >>
       ELSE LET keys == DOMAIN initial_weights[r]
                copy == [c \in keys |-> CopyRef(r, c)]
                refs == { copy[c] : c \in keys }
            IN  /\ heap' =
                     [ref \in DOMAIN heap \cup refs |->
                        IF ref \in refs
                        THEN LET c == CHOOSE k \in keys : copy[k] = ref
                                 v == heap[initial_weights[r][c]]
                             IN  [name           |-> v.name,
                                  initial_weight |-> v.initial_weight,
                                  current_weight |-> v.current_weight,
                                  triggered_by   |-> <<>>]
                        ELSE heap[ref]]
                /\ current_weights' = [current_weights EXCEPT ![r] = copy]
                /\ adjustments' = [adjustments EXCEPT ![r] = <<>>]
                /\ discoveries' = [discoveries EXCEPT ![r] =
                                      extract_significant_discoveries(research_findings[r])]
                /\ idx' = [idx EXCEPT ![r] = 1]
                /\ pc' = [pc EXCEPT ![r] = "adjust_loop"]
                /\ UNCHANGED adjustResult
    /\ UNCHANGED << enable_dynamic_weighting, context, research_findings, initial_weights >>
    /\ UNCHANGED << researchVars, synthVars, error >>
    /\ UNCHANGED sessionVars

\* the loop passes the caller's table to _process_discovery
StepWeightsInitial(r) == ValuesOf(initial_weights[r])

\* the table the loop passes to _process_discovery: the working copy
StepWeights(r) == ValuesOf(current_weights[r])

\* the new record is put in front
PrependAdjustment(list, adjustment) == <<adjustment>> \o list

\* adjustments.append(adjustment)
AppendAdjustment(list, adjustment) == Append(list, adjustment)

\* one iteration of `for discovery in discoveries`
AdjustStep(r) ==
    /\ pc[r] = "adjust_loop"
    /\ idx[r] <= Len(discoveries[r])
    /\ LET discovery  == discoveries[r][idx[r]]
           adjustment == process_discovery(discovery, StepWeights(r), context[r])
       IN  IF adjustment = <<>>
           THEN UNCHANGED << heap, adjustments >>
           ELSE /\ adjustments' = [adjustments EXCEPT ![r] =
                                        AppendAdjustment(@, adjustment[1])]
                /\ heap' = [heap EXCEPT ![current_weights[r][adjustment[1].criterion]] =
                              [@ EXCEPT !.current_weight = adjustment[1].weight_after,
                                        !.triggered_by   = Append(@, discovery.description)]]
    /\ idx' = [idx EXCEPT ![r] = @ + 1]
    /\ UNCHANGED << enable_dynamic_weighting, pc, context, research_findings,
                    initial_weights, current_weights, discoveries, adjustResult >>
    /\ UNCHANGED << researchVars, synthVars, error >>
    /\ UNCHANGED sessionVars

\* after the loop: normalize in place and return
AdjustFinish(r) ==
    /\ pc[r] = "adjust_loop"
    /\ idx[r] > Len(discoveries[r])
    /\ IF normalize_raises(ValuesOf(current_weights[r]))
       THEN /\ pc' = [pc EXCEPT ![r] = "failed"]
            /\ error' = [error EXCEPT ![r] = <<"ZeroDivisionError">>]
            /\ UNCHANGED << heap, adjustResult >>
       ELSE /\ LET table      == current_weights[r]
                   normalized == normalize_weights(ValuesOf(table))
                   refs       == { table[c] : c \in DOMAIN table }
               IN  heap' = [ref \in DOMAIN heap |->
                              IF ref \in refs
                              THEN [heap[ref] EXCEPT !.current_weight =
                                       normalized[CHOOSE c \in DOMAIN table : table[c] = ref]]
                              ELSE heap[ref]]
            /\ final_weights' = [final_weights EXCEPT ![r] = current_weights[r]]
            /\ weight_adjustments' = [weight_adjustments EXCEPT ![r] = adjustments[r]]
            /\ pc' = [pc EXCEPT ![r] = "adjusted"]
            /\ UNCHANGED error
    /\ UNCHANGED << enable_dynamic_weighting, context, research_findings,
                    initial_weights, adjustLocals >>
    /\ UNCHANGED << researchVars, synthVars >>
    /\ UNCHANGED sessionVars

\* the task running the call is cancelled at an await of the loop
CancelAdjust(r) ==
    /\ pc[r] = "adjust_loop"
    /\ pc' = [pc EXCEPT ![r] = "cancelled"]
    /\ UNCHANGED << enable_dynamic_weighting, context, heap, research_findings,
                    initial_weights, adjustLocals, adjustResult >>
    /\ UNCHANGED << researchVars, synthVars, error >>
    /\ UNCHANGED sessionVars

(***************************************************************************)
(* Inputs.                                                                 *)
(***************************************************************************)
VendorNames == << "A", "B", "C", "D" >>

Risk(type) == [type        |-> type,
               severity    |-> "medium",
               description |-> <<type, "detected">>,
               evidence    |-> <<"source">>]

\* what the research of one candidate puts into its ResearchFindings
MakeFindings(vendor_name, answers, ctx) ==
    [vendor_name        |-> vendor_name,
     analysis           |-> answers.analysis,
     tech_stack_support |-> check_tech_stack_support(answers.analysis["sdk_quality"],
                                                     ctx.tech_stack),
     required           |-> ctx.compliance,
     hidden_risks       |-> answers.hidden_risks]

Answers(sdk, uptime, pricing, compliance, other, risks) ==
    [analysis |->
        [c \in Criteria |->
            CASE c = "sdk_quality"        -> sdk
              [] c = "uptime_reliability" -> uptime
              [] c = "pricing"            -> pricing
              [] c = "compliance"         -> compliance
              [] OTHER                    -> other],
     hidden_risks |-> risks]

AdjustAnswers ==
    { Answers(<<"python", "Go">>, <<"stable">>, <<"fair">>, <<"certified">>, <<"ok">>, <<>>),
      Answers(<<"python", "Go">>, <<"Outage">>, <<"fair">>, <<"certified">>, <<"ok">>, <<>>),
      Answers(<<"python">>, <<"incident">>, <<"hidden fee">>, <<"lacking">>, <<"ok">>,
              << Risk("pricing_trap"), Risk("acquisition") >>),
      Answers(<<"python", "Go">>, <<"stable">>, <<"expensive">>, <<"certified">>, <<"ok">>,
              << Risk("vendor_lockin") >>),
      Answers(<<"good">>, <<"stable">>, <<"fair">>, <<"not certified">>, <<"ok">>, <<>>),
      Answers(<<"python", "Go">>, <<"downtime">>, <<"fair">>, <<"certified">>, <<"ok">>,
              << Risk("maintainer_health") >>) }

Context(priorities, compliance, domain) ==
    [priorities |-> priorities, compliance |-> compliance, domain |-> domain,
     tech_stack |-> <<"python", "go">>]

AdjustContexts ==
    { Context(p, c, "technology") :
        p \in { <<>>, <<"uptime">>, <<"Security", "pricing">> },
        c \in { <<>>, <<"PCI-DSS">> } }
    \cup { Context(<<>>, c, "Fintech") : c \in { <<>>, <<"PCI-DSS">> } }
    \cup { Context(p, <<>>, "technology") :
               p \in { <<"uptime reliability">>, <<"easy integration">> } }

\* the lists of findings of 0..MaxCandidates candidates, each from answers
RECURSIVE FindingsLists(_, _, _)
FindingsLists(n, answers, ctx) ==
    IF n = 0 THEN { <<>> }
    ELSE LET shorter == FindingsLists(n - 1, answers, ctx)
         IN  shorter \cup
             { Append(fs, MakeFindings(VendorNames[n], a, ctx)) :
                 fs \in { x \in shorter : Len(x) = n - 1 }, a \in answers }

SynthAnswers ==
    { Answers(<<"python", "Go", "excellent">>, <<"reliable", "robust">>, <<"inexpensive">>,
              <<"certified">>, <<"great", "fast", "comprehensive", "robust">>, <<>>),
      Answers(<<"python", "poor">>, <<"unreliable">>, <<"expensive">>, <<"lacking">>,
              <<"ok">>, << Risk("vendor_lockin"), Risk("pricing_trap") >>),
      Answers(<<>>, <<>>, <<>>, <<>>, <<>>, <<>>) }

SynthContexts ==
    { Context(<<>>, <<>>, "technology"), Context(<<"uptime">>, <<"PCI-DSS">>, "Fintech") }

PipelineAnswers ==
    { Answers(<<"python", "Go", "excellent">>, <<"reliable", "robust">>, <<"fair">>,
              <<"certified">>, <<"strong">>, <<>>),
      Answers(<<"python", "poor">>, <<"unreliable">>, <<"expensive">>, <<"lacking">>,
              <<"ok">>, << Risk("vendor_lockin") >>) }

\* the tasks of research_single_candidate whose exceptions gather lets through
ResearchTasks == { "technical", "operational", "business" }

\* replies of the Narrative Oracle
MaxLines == 2

CoreLines ==
    { "RECOMMENDED VENDOR: B", "  RECOMMENDED VENDOR:   ", "RATIONALE:", "B is robust" }

RECURSIVE TextsUpTo(_)
TextsUpTo(n) ==
    IF n = 0 THEN { <<>> }
    ELSE LET shorter == TextsUpTo(n - 1)
         IN  shorter \cup { Append(t, l) : t \in { x \in shorter : Len(x) = n - 1 },
                                           l \in CoreLines }

SectionLines ==
    << "RATIONALE:", "B is robust", "  ", "TRADE-OFFS:", "- weaker support",
       "ALTERNATIVES:", "- If cost matters: Consider A", "NEXT STEPS:", "1. run a pilot" >>

NarrativeTexts ==
    TextsUpTo(MaxLines)
    \cup { <<"RECOMMENDED VENDOR: B">> \o SectionLines,
           <<"Recommended Vendor: A">> \o SectionLines,
           <<"RECOMMENDED VENDOR: Zeta">> \o SectionLines,
           <<"I would go with B">> \o SectionLines }

(***************************************************************************)
(* EvaluationOrchestrator.run_evaluation, one action per stretch between   *)
(* awaits.  An exception raised in a phase reaches the except clause of    *)
(* run_evaluation, which reports it and raises it again.                   *)
(***************************************************************************)
Merge(h, new) ==
    [ref \in DOMAIN h \cup DOMAIN new |-> IF ref \in DOMAIN new THEN new[ref] ELSE h[ref]]

Raise(r, e) ==
    /\ pc' = [pc EXCEPT ![r] = "failed"]
    /\ error' = [error EXCEPT ![r] = e]

\* Phase 1: identify_candidates returns 0..max_candidates candidates
Identify(r) ==
    /\ pc[r] = "start"
    /\ \E n \in 0..MaxCandidates :
          /\ candidates' = [candidates EXCEPT ![r] = Prefix(VendorNames, n)]
          /\ pending' = [pending EXCEPT ![r] = [i \in 1..n |-> <<>>]]
    /\ pc' = [pc EXCEPT ![r] = "research"]
    /\ UNCHANGED << enable_dynamic_weighting, context, heap, research_findings,
                    initial_weights, adjustLocals, adjustResult, synthVars, error >>
    /\ UNCHANGED sessionVars

\* the chat_completion of _select_candidates raises
IdentifyFails(r) ==
    /\ pc[r] = "start"
    /\ Raise(r, <<"identify">>)
    /\ UNCHANGED << enable_dynamic_weighting, context, heap, research_findings,
                    initial_weights, adjustLocals, adjustResult, researchVars, synthVars >>
    /\ UNCHANGED sessionVars

\* Phase 2: research_single_candidate of candidate i returns its findings.  Its
\* tasks write disjoint fields of the candidate's own ResearchFindings.
ResearchCandidate(r, i) ==
    /\ pc[r] = "research"
    /\ pending[r][i] = <<>>
    /\ \E a \in PipelineAnswers :
          pending' = [pending EXCEPT ![r][i] =
                         << MakeFindings(candidates[r][i], a, context[r]) >>]
    /\ UNCHANGED << enable_dynamic_weighting, pc, context, heap, research_findings,
                    initial_weights, adjustLocals, adjustResult, candidates, synthVars,
                    error >>
    /\ UNCHANGED sessionVars

\* a chat_completion of a research task of candidate i raises: neither gather
\* has return_exceptions, so the exception leaves research_candidates
ResearchTaskFails(r, i, task) ==
    /\ pc[r] = "research"
    /\ pending[r][i] = <<>>
    /\ Raise(r, <<"research", candidates[r][i], task>>)
    /\ UNCHANGED << enable_dynamic_weighting, context, heap, research_findings,
                    initial_weights, adjustLocals, adjustResult, researchVars, synthVars >>
    /\ UNCHANGED sessionVars

\* the findings that have arrived are returned without waiting for the rest
JoinWithoutWaiting(r) ==
    /\ pc[r] = "research"
    /\ research_findings' = [research_findings EXCEPT ![r] =
          LET arrived == SelectSeq(pending[r], LAMBDA p : p # <<>>)
          IN  [i \in DOMAIN arrived |-> arrived[i][1]]]
    /\ pc' = [pc EXCEPT ![r] = "weights"]
    /\ UNCHANGED << enable_dynamic_weighting, context, heap, initial_weights,
                    adjustLocals, adjustResult, researchVars, synthVars, error >>
    /\ UNCHANGED sessionVars

\* gather returns the findings in the order of the candidates
ResearchJoin(r) ==
    /\ pc[r] = "research"
    /\ \A i \in DOMAIN pending[r] : pending[r][i] # <<>>
    /\ research_findings' = [research_findings EXCEPT ![r] =
                                [i \in DOMAIN pending[r] |-> pending[r][i][1]]]
    /\ pc' = [pc EXCEPT ![r] = "weights"]
    /\ UNCHANGED << enable_dynamic_weighting, context, heap, initial_weights,
                    adjustLocals, adjustResult, researchVars, synthVars, error >>
    /\ UNCHANGED sessionVars

\* Phase 3: initial_weights = self.weight_adjuster.get_initial_weights(context)
GetInitialWeights(r) ==
    /\ pc[r] = "weights"
    /\ LET values == get_initial_weights(context[r])
       IN  /\ initial_weights' = [initial_weights EXCEPT ![r] = NewTable(r, values)]
           /\ heap' = Merge(heap, NewObjects(r, values))
    /\ pc' = [pc EXCEPT ![r] = "adjust_weights"]
    /\ UNCHANGED << enable_dynamic_weighting, context, research_findings, adjustLocals,
                    adjustResult, researchVars, synthVars, error >>
    /\ UNCHANGED sessionVars

\* Phase 4: synthesize_recommendation up to the await of the Narrative Oracle
ScoreVendors(r) ==
    /\ pc[r] = "adjusted"
    /\ LET scores == score_vendors(research_findings[r], ValuesOf(final_weights[r]))
       IN  /\ vendor_scores' = [vendor_scores EXCEPT ![r] = scores]
           /\ comparison_matrix' = [comparison_matrix EXCEPT ![r] =
                 generate_comparison_matrix(scores, ValuesOf(final_weights[r]))]
    /\ key_discoveries' = [key_discoveries EXCEPT ![r] =
                              extract_key_discoveries(weight_adjustments[r])]
    /\ hidden_risks' = [hidden_risks EXCEPT ![r] =
                           collect_hidden_risks(research_findings[r])]
    /\ attempt' = [attempt EXCEPT ![r] = 0]
    /\ pc' = [pc EXCEPT ![r] = "narrative"]
    /\ UNCHANGED << enable_dynamic_weighting, context, heap, research_findings,
                    initial_weights, adjustLocals, adjustResult, researchVars,
                    recommendation_text, recommendation, error >>
    /\ UNCHANGED sessionVars

\* @retry(stop=stop_after_attempt(3))
StopAfterAttempt == 3

\* no attempt is ever the last one
never_stop(failed) == FALSE

\* stop_after_attempt: the attempt made after `failed` failed ones is the last
stop_after_attempt(failed) == failed + 1 >= StopAfterAttempt

\* an attempt of chat_completion raises and is retried
NarrativeRetry(r) ==
    /\ pc[r] = "narrative"
    /\ ~stop_after_attempt(attempt[r])
    /\ attempt' = [attempt EXCEPT ![r] = @ + 1]
    /\ UNCHANGED << enable_dynamic_weighting, pc, context, heap, research_findings,
                    initial_weights, adjustLocals, adjustResult, researchVars,
                    vendor_scores, key_discoveries, hidden_risks, comparison_matrix,
                    recommendation_text, recommendation, error >>
    /\ UNCHANGED sessionVars

\* the last attempt raises: _generate_recommendation and
\* synthesize_recommendation have no handler
NarrativeFails(r) ==
    /\ pc[r] = "narrative"
    /\ stop_after_attempt(attempt[r])
    /\ attempt' = [attempt EXCEPT ![r] = @ + 1]
    /\ Raise(r, <<"narrative">>)
    /\ UNCHANGED << enable_dynamic_weighting, context, heap, research_findings,
                    initial_weights, adjustLocals, adjustResult, researchVars,
                    vendor_scores, key_discoveries, hidden_risks, comparison_matrix,
                    recommendation_text, recommendation >>
    /\ UNCHANGED sessionVars

\* the oracle replies; _parse_recommendation builds the FinalRecommendation
NarrativeReply(r) ==
    /\ pc[r] = "narrative"
    /\ \E text \in NarrativeTexts :
          /\ recommendation_text' = [recommendation_text EXCEPT ![r] = text]
          /\ recommendation' = [recommendation EXCEPT ![r] =
                parse_recommendation(text, context[r], candidates[r], key_discoveries[r],
                                     weight_adjustments[r], ValuesOf(final_weights[r]),
                                     vendor_scores[r], comparison_matrix[r],
                                     hidden_risks[r])]
    /\ pc' = [pc EXCEPT ![r] = "done"]
    /\ UNCHANGED << enable_dynamic_weighting, context, heap, research_findings,
                    initial_weights, adjustLocals, adjustResult, researchVars,
                    vendor_scores, key_discoveries, hidden_risks, comparison_matrix,
                    attempt, error >>
    /\ UNCHANGED sessionVars

NamesOf(findings) == [i \in DOMAIN findings |-> findings[i].vendor_name]

\* nothing of the research is in flight and nothing of the synthesis has run
IdleAfterAdjust(rs) ==
    /\ pending = [r \in rs |-> <<>>]
    /\ vendor_scores = [r \in rs |-> <<>>]
    /\ key_discoveries = [r \in rs |-> <<>>]
    /\ hidden_risks = [r \in rs |-> <<>>]
    /\ comparison_matrix = [r \in rs |-> <<>>]
    /\ attempt = [r \in rs |-> 0]
    /\ recommendation_text = [r \in rs |-> <<>>]
    /\ recommendation = [r \in rs |-> <<>>]
    /\ error = [r \in rs |-> <<>>]
    /\ conversation_states = <<>>
    /\ calls = <<>>

(***************************************************************************)
(* SpecAdjust: adjust_weights called on a table.  The table is the one     *)
(* get_initial_weights builds for the context, or that table without its   *)
(* "pricing" entry (a caller's table that lacks a criterion the            *)
(* discoveries refer to).                                                  *)
(***************************************************************************)
InitAdjust ==
    /\ enable_dynamic_weighting \in BOOLEAN
    /\ pc = [r \in {1} |-> "adjust_weights"]
    /\ context \in [{1} -> AdjustContexts]
    /\ \E keys \in { Criteria, Criteria \ {"pricing"} } :
          /\ initial_weights =
                [r \in {1} |-> NewTable(r, Restrict(get_initial_weights(context[r]), keys))]
          /\ heap = NewObjects(1, Restrict(get_initial_weights(context[1]), keys))
    /\ research_findings \in
          [{1} -> FindingsLists(MaxCandidates, AdjustAnswers, context[1])]
    /\ current_weights = [r \in {1} |-> <<>>]
    /\ discoveries = [r \in {1} |-> <<>>]
    /\ idx = [r \in {1} |-> 0]
    /\ adjustments = [r \in {1} |-> <<>>]
    /\ final_weights = [r \in {1} |-> <<>>]
    /\ weight_adjustments = [r \in {1} |-> <<>>]
    /\ candidates = [r \in {1} |-> NamesOf(research_findings[r])]
    /\ IdleAfterAdjust({1})

NextAdjust ==
    \/ \E r \in Runs : AdjustBegin(r)
    \/ \E r \in Runs : AdjustStep(r)
    \/ \E r \in Runs : AdjustFinish(r)
    \/ \E r \in Runs : CancelAdjust(r)

SpecAdjust == InitAdjust /\ [][NextAdjust]_vars

(***************************************************************************)
(* Properties of adjust_weights (SpecAdjust).                              *)
(***************************************************************************)
\* the values get_initial_weights gives the keys of the caller's table
OriginalValues(r) ==
    Restrict(get_initial_weights(context[r]), DOMAIN initial_weights[r])

\* C1: the final weights returned by adjust_weights sum to 100, on a table
\* produced by get_initial_weights and, with dynamic weighting enabled, also
\* on a table from which discoveries are dropped, however many discoveries
\* were applied.
C1_FinalWeightsSumTo100 ==
    \A r \in Runs :
        (/\ pc[r] = "adjusted"
         /\ (DOMAIN initial_weights[r] = Criteria \/ enable_dynamic_weighting))
        => SumOver(ValuesOf(final_weights[r]), DOMAIN final_weights[r]) = R(100)

C1_Witness ==
    \E r \in Runs :
        /\ pc[r] = "adjusted"
        /\ enable_dynamic_weighting
        /\ Len(weight_adjustments[r]) >= 3
        /\ Len(discoveries[r]) > Len(weight_adjustments[r])

\* C2: every recorded WeightAdjustment has 5 <= weight_after <= 40.
C2_AdjustmentWithinBounds ==
    \A r \in Runs : \A i \in DOMAIN adjustments[r] :
        /\ RLe(R(5), adjustments[r][i].weight_after)
        /\ RLe(adjustments[r][i].weight_after, R(40))

\* an adjustment whose sum 30 + 15 was cut back to 40
C2_Witness ==
    \E r \in Runs : \E i \in DOMAIN adjustments[r] :
        /\ adjustments[r][i].weight_before = R(30)
        /\ adjustments[r][i].weight_after = R(40)
        /\ calculate_adjustment_amount(discoveries[r][idx[r] - 1], context[r]) = R(15)

\* C3: with dynamic weighting disabled adjust_weights returns the initial
\* table itself, every current weight unchanged, and no adjustment.
C3_DisabledReturnsInitial ==
    \A r \in Runs :
        (pc[r] = "adjusted" /\ ~enable_dynamic_weighting)
        => /\ final_weights[r] = initial_weights[r]
           /\ ValuesOf(final_weights[r]) = OriginalValues(r)
           /\ weight_adjustments[r] = <<>>

C3_Witness ==
    \E r \in Runs :
        /\ pc[r] = "adjusted"
        /\ ~enable_dynamic_weighting
        /\ Len(extract_significant_discoveries(research_findings[r])) >= 2

\* C8: an iteration of the loop on a discovery whose affected criterion is
\* no key of the table records nothing, changes no object and goes on to
\* the next discovery.
C8_UnresolvableSkipped ==
    [][\A r \in Runs :
          (/\ pc[r] = "adjust_loop"
           /\ idx[r] <= Len(discoveries[r])
           /\ idx'[r] # idx[r]
           /\ discoveries[r][idx[r]].affected_criterion \notin DOMAIN current_weights[r])
          => /\ adjustments'[r] = adjustments[r]
             /\ heap' = heap
             /\ idx'[r] = idx[r] + 1
             /\ pc'[r] = "adjust_loop"]_vars

\* a discovery was skipped and a later one applied
C8_Witness ==
    \E r \in Runs : \E i \in DOMAIN discoveries[r] :
        /\ pc[r] = "adjust_loop"
        /\ i < idx[r] - 1
        /\ discoveries[r][i].affected_criterion \notin DOMAIN current_weights[r]
        /\ adjustments[r] # <<>>
        /\ adjustments[r][Len(adjustments[r])].discovery = discoveries[r][idx[r] - 1].description

\* C9: the caller's initial table keeps its original current weights at every
\* point, and a cancelled call has returned no table and no adjustment.
C9_InitialTableUntouched ==
    \A r \in Runs :
        /\ ValuesOf(initial_weights[r]) = OriginalValues(r)
        /\ pc[r] = "cancelled" => (final_weights[r] = <<>> /\ weight_adjustments[r] = <<>>)

\* cancelled between two adjustments
C9_Witness ==
    \E r \in Runs :
        /\ pc[r] = "cancelled"
        /\ adjustments[r] # <<>>
        /\ idx[r] <= Len(discoveries[r])
        /\ process_discovery(discoveries[r][idx[r]], ValuesOf(current_weights[r]),
                             context[r]) # <<>>

(***************************************************************************)
(* SpecSynth: synthesize_recommendation called with the findings and the   *)
(* tables and adjustments that adjust_weights returns for them.            *)
(***************************************************************************)
InitSynth ==
    /\ enable_dynamic_weighting \in BOOLEAN
    /\ pc = [r \in {1} |-> "adjusted"]
    /\ context \in [{1} -> SynthContexts]
    /\ research_findings \in [{1} -> FindingsLists(MaxCandidates, SynthAnswers, context[1])]
    /\ candidates = [r \in {1} |-> NamesOf(research_findings[r])]
    /\ \E initial \in { get_initial_weights(context[1]) } :
       \E alone \in { AdjustAlone(initial, research_findings[1], context[1],
                                  enable_dynamic_weighting) } :
       LET copy    == [c \in DOMAIN initial |-> CopyRef(1, c)]
       IN  /\ initial_weights = [r \in {1} |-> NewTable(r, initial)]
           /\ final_weights = [r \in {1} |-> IF enable_dynamic_weighting
                                              THEN copy ELSE NewTable(r, initial)]
           /\ weight_adjustments = [r \in {1} |-> alone.adjustments]
           /\ heap = IF enable_dynamic_weighting
                     THEN Merge(NewObjects(1, initial),
                                [ref \in { copy[c] : c \in DOMAIN copy } |->
                                    LET c == CHOOSE k \in DOMAIN copy : copy[k] = ref
                                    IN  [name           |-> c,
                                         initial_weight |-> initial[c],
                                         current_weight |-> alone.weights[c],
                                         triggered_by   |-> <<>>]])
                     ELSE NewObjects(1, initial)
    /\ current_weights = [r \in {1} |-> <<>>]
    /\ discoveries = [r \in {1} |-> <<>>]
    /\ idx = [r \in {1} |-> 0]
    /\ adjustments = [r \in {1} |-> <<>>]
    /\ IdleAfterAdjust({1})

NextSynth ==
    \/ \E r \in Runs : ScoreVendors(r)
    \/ \E r \in Runs : NarrativeRetry(r)
    \/ \E r \in Runs : NarrativeFails(r)
    \/ \E r \in Runs : NarrativeReply(r)

SpecSynth == InitSynth /\ [][NextSynth]_vars

(***************************************************************************)
(* Spec: one run of run_evaluation.                                        *)
(***************************************************************************)
Init ==
    /\ enable_dynamic_weighting \in BOOLEAN
    /\ pc = [r \in {1} |-> "start"]
    /\ context \in [{1} -> SynthContexts]
    /\ heap = <<>>
    /\ research_findings = [r \in {1} |-> <<>>]
    /\ initial_weights = [r \in {1} |-> <<>>]
    /\ current_weights = [r \in {1} |-> <<>>]
    /\ discoveries = [r \in {1} |-> <<>>]
    /\ idx = [r \in {1} |-> 0]
    /\ adjustments = [r \in {1} |-> <<>>]
    /\ final_weights = [r \in {1} |-> <<>>]
    /\ weight_adjustments = [r \in {1} |-> <<>>]
    /\ candidates = [r \in {1} |-> <<>>]
    /\ IdleAfterAdjust({1})

Next ==
    \/ \E r \in Runs : Identify(r)
    \/ \E r \in Runs : IdentifyFails(r)
    \/ \E r \in Runs : \E i \in DOMAIN pending[r] : ResearchCandidate(r, i)
    \/ \E r \in Runs : \E i \in DOMAIN pending[r] : \E task \in ResearchTasks :
          ResearchTaskFails(r, i, task)
    \/ \E r \in Runs : ResearchJoin(r)
    \/ \E r \in Runs : GetInitialWeights(r)
    \/ \E r \in Runs : AdjustBegin(r)
    \/ \E r \in Runs : AdjustStep(r)
    \/ \E r \in Runs : AdjustFinish(r)
    \/ \E r \in Runs : CancelAdjust(r)
    \/ \E r \in Runs : ScoreVendors(r)
    \/ \E r \in Runs : NarrativeRetry(r)
    \/ \E r \in Runs : NarrativeFails(r)
    \/ \E r \in Runs : NarrativeReply(r)

Spec == Init /\ [][Next]_vars

(***************************************************************************)
(* SpecConc: two runs on one orchestrator, from the weight phase to the    *)
(* ranking, their steps interleaved at every await.                        *)
(***************************************************************************)
ConcRuns == {1, 2}

\* candidates of each of the two runs
MaxConcCandidates == 1

ConcContexts ==
    { Context(<<>>, <<>>, "technology"),
      Context(<<>>, <<>>, "Fintech"),
      Context(<<"uptime">>, <<"PCI-DSS">>, "technology") }

ConcAnswers ==
    { Answers(<<"python", "Go", "excellent">>, <<"reliable", "robust">>, <<"fair">>,
              <<"certified">>, <<"strong">>, <<>>),
      Answers(<<"python", "poor">>, <<"Outage">>, <<"expensive">>, <<"lacking">>,
              <<"ok">>, << Risk("vendor_lockin") >>) }

InitConc ==
    /\ enable_dynamic_weighting \in BOOLEAN
    /\ pc = [r \in ConcRuns |-> "weights"]
    /\ context \in [ConcRuns -> ConcContexts]
    /\ research_findings \in
          [ConcRuns -> UNION { FindingsLists(MaxConcCandidates, ConcAnswers, ctx) :
                                 ctx \in ConcContexts }]
    /\ \A r \in ConcRuns :
          research_findings[r] \in FindingsLists(MaxConcCandidates, ConcAnswers, context[r])
    /\ candidates = [r \in ConcRuns |-> NamesOf(research_findings[r])]
    /\ heap = <<>>
    /\ initial_weights = [r \in ConcRuns |-> <<>>]
    /\ current_weights = [r \in ConcRuns |-> <<>>]
    /\ discoveries = [r \in ConcRuns |-> <<>>]
    /\ idx = [r \in ConcRuns |-> 0]
    /\ adjustments = [r \in ConcRuns |-> <<>>]
    /\ final_weights = [r \in ConcRuns |-> <<>>]
    /\ weight_adjustments = [r \in ConcRuns |-> <<>>]
    /\ IdleAfterAdjust(ConcRuns)

NextConc ==
    \/ \E r \in Runs : GetInitialWeights(r)
    \/ \E r \in Runs : AdjustBegin(r)
    \/ \E r \in Runs : AdjustStep(r)
    \/ \E r \in Runs : AdjustFinish(r)
    \/ \E r \in Runs : ScoreVendors(r)

SpecConc == InitConc /\ [][NextConc]_vars

(***************************************************************************)
(* Properties of synthesize_recommendation (SpecSynth).                    *)
(***************************************************************************)
Scored(r) == pc[r] \in {"narrative", "done"}

\* C4: the ranking returned by _score_vendors is a permutation of the
\* candidates' scores in non-increasing order of weighted total, and two
\* candidates with the same weighted total keep the order they have in the
\* input list.
C4_RankingStablePermutation ==
    \A r \in Runs :
        Scored(r) =>
            LET vs == vendor_scores[r]
                fs == research_findings[r]
                w  == ValuesOf(final_weights[r])
            IN  /\ Len(vs) = Len(fs)
                /\ \E p \in [DOMAIN vs -> DOMAIN fs] :
                      /\ \A j, k \in DOMAIN vs : p[j] = p[k] => j = k
                      /\ \A j \in DOMAIN vs : vs[j] = vendor_score(fs[p[j]], w)
                      /\ \A j, k \in DOMAIN vs :
                            j < k => /\ RLe(vs[k].weighted_score, vs[j].weighted_score)
                                     /\ (vs[k].weighted_score = vs[j].weighted_score
                                            => p[j] < p[k])

\* A and B tied on input [A, B]
C4_Witness ==
    \E r \in Runs :
        /\ Scored(r)
        /\ Len(vendor_scores[r]) >= 2
        /\ vendor_scores[r][1].weighted_score = vendor_scores[r][2].weighted_score
        /\ research_findings[r][1].vendor_name = "A"
        /\ research_findings[r][2].vendor_name = "B"

\* no line of the text carries the marker with a name after the colon
NamesNoVendor(text) ==
    \A i \in DOMAIN text :
        "RECOMMENDED VENDOR:" \in MarkersIn(StripLine(text[i]))
            => AfterFirstColon(StripLine(text[i])) = ""

FallbackRationale(score) ==
    << <<"Recommended based on highest weighted score", Fmt1(score.weighted_score)>> >>

\* C5: when the reply has no recommended-vendor line, or only such lines with
\* nothing after the colon, and at least one candidate was scored, the
\* recommended vendor is the name of the first-ranked VendorScore, which has
\* the highest weighted total, and the rationale is the template with that
\* total.
C5_FallbackToTopRanked ==
    \A r \in Runs :
        (/\ pc[r] = "done"
         /\ vendor_scores[r] # <<>>
         /\ NamesNoVendor(recommendation_text[r]))
        => /\ recommendation[r].recommended_vendor = vendor_scores[r][1].vendor_name
           /\ \A j \in DOMAIN vendor_scores[r] :
                 RLe(vendor_scores[r][j].weighted_score,
                     vendor_scores[r][1].weighted_score)
           /\ recommendation[r].rationale = FallbackRationale(vendor_scores[r][1])

\* a reply with a rationale section and an empty vendor line, two candidates
\* scored and the second of the input ranked first
C5_Witness ==
    \E r \in Runs :
        /\ pc[r] = "done"
        /\ Len(vendor_scores[r]) >= 2
        /\ recommendation_text[r] = <<"RATIONALE:", "  RECOMMENDED VENDOR:   ">>
        /\ recommendation[r].recommended_vendor = "B"
        /\ candidates[r][1] = "A"

(***************************************************************************)
(* Properties of run_evaluation (Spec).                                    *)
(***************************************************************************)
\* C6: when the Narrative Oracle call has failed the run does not end in an
\* error: it goes on to a complete Recommendation by the top-score fallback,
\* with the vendor scores and the final weights it had computed.
C6_NarrativeFailureRecovered ==
    \A r \in Runs :
        attempt[r] = StopAfterAttempt
        => /\ pc[r] # "failed"
           /\ error[r] = <<>>
           /\ (pc[r] = "done"
                 => /\ recommendation[r].recommended_vendor
                          = vendor_scores[r][1].vendor_name
                    /\ recommendation[r].vendor_scores = vendor_scores[r]
                    /\ recommendation[r].final_weights = ValuesOf(final_weights[r]))

\* C7: a failure of one research task never aborts the run: no run ends with
\* the exception of a research task.
C7_ResearchFailureIsolated ==
    \A r \in Runs :
        pc[r] = "failed" => (error[r] = <<>> \/ error[r][1] # "research")

(***************************************************************************)
(* Properties of two interleaved runs (SpecConc).                          *)
(***************************************************************************)
Alone(r) ==
    AdjustAlone(get_initial_weights(context[r]), research_findings[r], context[r],
                enable_dynamic_weighting)

\* C10: under every interleaving of two runs on one orchestrator, the final
\* weights and the adjustment list of each run are those the run produces
\* when it is executed alone, from the moment adjust_weights returns them.
C10_RunsDoNotInterfere ==
    \A r \in Runs :
        pc[r] \in {"adjusted", "narrative"}
        => /\ ValuesOf(final_weights[r]) = Alone(r).weights
           /\ weight_adjustments[r] = Alone(r).adjustments
           /\ (pc[r] = "narrative"
                 => vendor_scores[r] = score_vendors(research_findings[r],
                                                     Alone(r).weights))

\* run 1 has returned its adjustments while run 2, on another context, is in
\* the middle of its loop and has already raised a weight of its own table
C10_Witness ==
    /\ Runs = ConcRuns
    /\ pc[1] = "adjusted"
    /\ Len(weight_adjustments[1]) >= 2
    /\ pc[2] = "adjust_loop"
    /\ idx[2] > 1
    /\ idx[2] <= Len(discoveries[2])
    /\ adjustments[2] # <<>>
    /\ context[1] # context[2]

(***************************************************************************)
(* Properties of the adjustment loop (SpecAdjust).                         *)
(***************************************************************************)
MaxOf(S) == CHOOSE x \in S : \A y \in S : y <= x

\* the adjustments before the i-th that have its criterion
EarlierSame(adjs, i) == { j \in 1..(i - 1) : adjs[j].criterion = adjs[i].criterion }

\* the weight of criterion c after the adjustments recorded so far and
\* before any renormalization
Accumulated(r, c) ==
    LET js == { j \in DOMAIN adjustments[r] : adjustments[r][j].criterion = c }
    IN  IF js = {} THEN heap[initial_weights[r][c]].current_weight
        ELSE adjustments[r][MaxOf(js)].weight_after

\* C11: the weight_before of each adjustment is the weight_after of the
\* previous adjustment to the same criterion, or the criterion's initial
\* weight when there is none; while the loop runs the working table holds
\* these accumulated weights, and the returned table is the accumulated
\* table scaled once by 100 / total.
C11_AccumulateThenNormalizeOnce ==
    \A r \in Runs :
        enable_dynamic_weighting =>
            /\ \A i \in DOMAIN adjustments[r] :
                  LET adjs == adjustments[r]
                      prev == EarlierSame(adjs, i)
                  IN  adjs[i].weight_before =
                         IF prev = {}
                         THEN heap[initial_weights[r][adjs[i].criterion]].current_weight
                         ELSE adjs[MaxOf(prev)].weight_after
            /\ pc[r] = "adjust_loop" =>
                  \A c \in DOMAIN current_weights[r] :
                      heap[current_weights[r][c]].current_weight = Accumulated(r, c)
            /\ pc[r] = "adjusted" =>
                  LET keys  == DOMAIN final_weights[r]
                      total == SumOver([c \in keys |-> Accumulated(r, c)], keys)
                  IN  \A c \in keys :
                         heap[final_weights[r][c]].current_weight =
                            RMul(Accumulated(r, c), RDiv(R(100), total))

\* two adjustments to one criterion, the second starting from the first's
\* result, in a returned list
C11_Witness ==
    \E r \in Runs : \E i, j \in DOMAIN weight_adjustments[r] :
        /\ pc[r] = "adjusted"
        /\ i < j
        /\ weight_adjustments[r][i].criterion = weight_adjustments[r][j].criterion
        /\ weight_adjustments[r][j].weight_before = weight_adjustments[r][i].weight_after
        /\ weight_adjustments[r][j].weight_before
              # heap[initial_weights[r][weight_adjustments[r][j].criterion]].current_weight

\* the discoveries the loop has gone through
Processed(r) == SubSeq(discoveries[r], 1, idx[r] - 1)

\* C12: the adjustment list has at most one record per processed discovery,
\* in the order of the discoveries: it is the list of the processed
\* discoveries whose affected criterion is a key of the table, one record
\* each; when every affected criterion is a key it has one record per
\* discovery.
C12_OneRecordPerDiscoveryInOrder ==
    \A r \in Runs :
        pc[r] \in {"adjust_loop", "adjusted", "cancelled"} /\ enable_dynamic_weighting =>
            LET kept == SelectSeq(Processed(r),
                           LAMBDA d : d.affected_criterion \in DOMAIN current_weights[r])
                adjs == adjustments[r]
            IN  /\ Len(adjs) <= Len(Processed(r))
                /\ Len(adjs) = Len(kept)
                /\ \A i \in DOMAIN adjs :
                      /\ adjs[i].discovery = kept[i].description
                      /\ adjs[i].evidence = kept[i].evidence
                      /\ adjs[i].criterion = kept[i].affected_criterion
                /\ (\A i \in DOMAIN discoveries[r] :
                       discoveries[r][i].affected_criterion \in DOMAIN current_weights[r])
                   => Len(adjs) = Len(Processed(r))
                /\ pc[r] = "adjusted" =>
                      weight_adjustments[r] = adjs /\ Len(Processed(r)) = Len(discoveries[r])

\* a returned list of three or more records of different discoveries, one
\* discovery having been dropped
C12_Witness ==
    \E r \in Runs :
        /\ pc[r] = "adjusted"
        /\ Len(weight_adjustments[r]) >= 3
        /\ Len(weight_adjustments[r]) < Len(discoveries[r])
        /\ weight_adjustments[r][1].discovery # weight_adjustments[r][2].discovery

(***************************************************************************)
(* SpecWeights: get_initial_weights called on a context.                   *)
(***************************************************************************)
WeightContexts ==
    { Context(p, c, d) :
        p \in { <<>>, <<"uptime">>, <<"Security">>, <<"security", "uptime">>,
                <<"cost-effective">>, <<"easy integration">> },
        c \in { <<>>, <<"PCI-DSS">>, <<"PCI-DSS", "SOC2">> },
        d \in { "technology", "Fintech", "fintech", "healthcare" } }

InitWeights ==
    /\ enable_dynamic_weighting \in BOOLEAN
    /\ pc = [r \in {1} |-> "weights"]
    /\ context \in [{1} -> WeightContexts]
    /\ heap = <<>>
    /\ research_findings = [r \in {1} |-> <<>>]
    /\ initial_weights = [r \in {1} |-> <<>>]
    /\ current_weights = [r \in {1} |-> <<>>]
    /\ discoveries = [r \in {1} |-> <<>>]
    /\ idx = [r \in {1} |-> 0]
    /\ adjustments = [r \in {1} |-> <<>>]
    /\ final_weights = [r \in {1} |-> <<>>]
    /\ weight_adjustments = [r \in {1} |-> <<>>]
    /\ candidates = [r \in {1} |-> <<>>]
    /\ IdleAfterAdjust({1})

NextWeights ==
    \/ \E r \in Runs : GetInitialWeights(r)

SpecWeights == InitWeights /\ [][NextWeights]_vars

(***************************************************************************)
(* Properties of get_initial_weights (SpecWeights).                        *)
(***************************************************************************)
HasInitialWeights(r) == pc[r] = "adjust_weights"

\* C13: for every context the initial weights sum to 100, and when the
\* context declares compliance requirements the compliance weight is not 0
\* and every other criterion has the same ratio to its default weight.
C13_SumAndProportionalScaling ==
    \A r \in Runs :
        HasInitialWeights(r) =>
            LET w == ValuesOf(initial_weights[r])
            IN  /\ SumOver(w, DOMAIN w) = R(100)
                /\ context[r].compliance # <<>> =>
                      /\ w["compliance"] # R(0)
                      /\ \A c, d \in Criteria \ {"compliance"} :
                            RDiv(w[c], default_weights[c]) = RDiv(w[d], default_weights[d])

\* no priority that names reliability or security
NoReliabilityOrSecurity(priorities) ==
    \A i \in DOMAIN priorities :
        /\ ~InLower("security", priorities[i])
        /\ ~InLower("reliability", priorities[i])
        /\ ~InLower("uptime", priorities[i])

\* C14: a context with no compliance requirements and no priority matching
\* reliability or security gets the default weights, whatever its domain.
C14_DefaultsWhateverDomain ==
    \A r \in Runs :
        (/\ HasInitialWeights(r)
         /\ context[r].compliance = <<>>
         /\ NoReliabilityOrSecurity(context[r].priorities))
        => ValuesOf(initial_weights[r]) = default_weights

(***************************************************************************)
(* Properties of _calculate_adjustment_amount (SpecAdjust).                *)
(***************************************************************************)
\* the delta of a discovery when the priorities are matched against the
\* display name of the affected criterion
DisplayNameDelta(discovery, ctx) ==
    IF \E i \in DOMAIN ctx.priorities :
           InLower(ctx.priorities[i], Title(discovery.affected_criterion))
    THEN RMul(base_adjustment(discovery.type), <<3, 2>>)
    ELSE base_adjustment(discovery.type)

\* C15: every recorded adjustment moves the weight by the base delta of the
\* discovery's kind, multiplied by 1.5 exactly when some declared priority
\* is a case-insensitive substring of the affected criterion's display
\* name, and clamped into [5, 40].
C15_DeltaByDisplayName ==
    \A r \in Runs :
        (enable_dynamic_weighting /\ pc[r] \in {"adjust_loop", "adjusted"}) =>
            LET kept == SelectSeq(Processed(r),
                           LAMBDA d : d.affected_criterion \in DOMAIN current_weights[r])
                adjs == adjustments[r]
            IN  \A i \in DOMAIN adjs :
                    i \in DOMAIN kept =>
                        adjs[i].weight_after =
                            Clamp(RAdd(adjs[i].weight_before,
                                       DisplayNameDelta(kept[i], context[r])))

(***************************************************************************)
(* Properties of _extract_significant_discoveries (SpecAdjust).            *)
(***************************************************************************)
\* the place of a discovery's rule in the rule order
RuleRank(type) ==
    CASE type = "uptime_issue"    -> 1
      [] type = "missing_sdk"     -> 2
      [] type = "pricing_concern" -> 3
      [] type = "compliance_gap"  -> 5
      [] OTHER                    -> 4

\* the position of the candidate a discovery is about
CandidateOf(F, d) == CHOOSE k \in DOMAIN F : F[k].vendor_name = d.vendor

\* the discoveries of rule rank n about candidate k
OfRule(D, F, k, n) ==
    SelectSeq(D, LAMBDA d : d.vendor = F[k].vendor_name /\ RuleRank(d.type) = n)

Unsupported(f) ==
    { f.tech_stack_support[j].tech :
        j \in { x \in DOMAIN f.tech_stack_support : ~f.tech_stack_support[x].supported } }

\* the condition under which the rule of rank n emits for findings f
RuleApplies(f, n) ==
    CASE n = 1 -> indicates_issue(f.analysis["uptime_reliability"],
                                  {"outage", "downtime", "incident", "unavailable"})
      [] n = 2 -> Unsupported(f) # {}
      [] n = 3 -> indicates_issue(f.analysis["pricing"],
                                  {"expensive", "jump", "hidden fee", "trap"})
      [] n = 5 -> /\ f.required # <<>>
                  /\ indicates_issue(f.analysis["compliance"],
                                     {"not certified", "lacking", "missing"})

HasDiscoveries(r) ==
    enable_dynamic_weighting /\ pc[r] \in {"adjust_loop", "adjusted", "cancelled"}

\* C16: the discovery list goes through the candidates in input order and,
\* within a candidate, through the rules in the order uptime issue, missing
\* SDK, pricing concern, hidden risks, compliance gap; each of the four
\* single rules emits one discovery when its condition holds and none
\* otherwise, the missing-SDK discovery lists exactly the unsupported
\* technologies, the risk rule emits one discovery per risk record in
\* record order, and a compliance gap needs declared requirements.
C16_DiscoveriesInRuleOrder ==
    \A r \in Runs :
        HasDiscoveries(r) =>
            LET D == discoveries[r]
                F == research_findings[r]
            IN  /\ \A i \in DOMAIN D : \E k \in DOMAIN F : F[k].vendor_name = D[i].vendor
                /\ \A i, j \in DOMAIN D :
                      i < j =>
                        \/ CandidateOf(F, D[i]) < CandidateOf(F, D[j])
                        \/ /\ CandidateOf(F, D[i]) = CandidateOf(F, D[j])
                           /\ RuleRank(D[i].type) <= RuleRank(D[j].type)
                /\ \A k \in DOMAIN F :
                      /\ \A n \in {1, 2, 3, 5} :
                            Len(OfRule(D, F, k, n)) = IF RuleApplies(F[k], n) THEN 1 ELSE 0
                      /\ \A i \in DOMAIN OfRule(D, F, k, 2) :
                            LET description == OfRule(D, F, k, 2)[i].description
                            IN  { description[j] : j \in 3..Len(description) }
                                    = Unsupported(F[k])
                      /\ Len(OfRule(D, F, k, 4)) = Len(F[k].hidden_risks)
                      /\ \A i \in DOMAIN OfRule(D, F, k, 4) :
                            /\ OfRule(D, F, k, 4)[i].type
                                  = "hidden_risk_" \o F[k].hidden_risks[i].type
                            /\ OfRule(D, F, k, 4)[i].evidence = F[k].hidden_risks[i].evidence
                      /\ F[k].required = <<>> => OfRule(D, F, k, 5) = <<>>

\* two candidates: the first with a discovery of every rule and two risk
\* records, the second with a discovery of its own
C16_Witness ==
    \E r \in Runs :
        /\ HasDiscoveries(r)
        /\ Len(research_findings[r]) = 2
        /\ \A n \in {1, 2, 3, 5} :
              Len(OfRule(discoveries[r], research_findings[r], 1, n)) = 1
        /\ Len(OfRule(discoveries[r], research_findings[r], 1, 4)) = 2
        /\ \E i \in DOMAIN discoveries[r] :
              discoveries[r][i].vendor = research_findings[r][2].vendor_name

(***************************************************************************)
(* SpecScore: _score_vendors called by synthesize_recommendation on the    *)
(* findings of one candidate and a final table: the table of the context,  *)
(* or that table without some of its entries.  The uptime analysis        *)
(* (scored as it is) and the pricing analysis (scored with inverse=True)   *)
(* are the same text; the candidate has no hidden risk or two.             *)
(***************************************************************************)
MaxWords == 2

ScoreWords == { "great", "poor", "fine" }

RECURSIVE AnalysesUpTo(_)
AnalysesUpTo(n) ==
    IF n = 0 THEN { <<>> }
    ELSE LET shorter == AnalysesUpTo(n - 1)
         IN  shorter \cup { Append(t, w) : t \in { x \in shorter : Len(x) = n - 1 },
                                           w \in ScoreWords }

ScoreTexts ==
    AnalysesUpTo(MaxWords)
        \cup { <<"Great", "strong", "robust", "fast">>,
               <<"poor", "weak", "slow", "complex", "expensive">>,
               <<"great", "great", "great", "great">>,
               <<"poor", "great", "poor">>,
               <<"unreliable">>,
               <<"inexpensive", "fast", "fast">> }

ScoreAnswers ==
    { Answers(<<"python">>, t, t, <<"certified">>, o, risks) :
        t \in ScoreTexts, o \in { <<>>, <<"ok">>, <<"great", "strong">> },
        risks \in { <<>>, << Risk("vendor_lockin"), Risk("pricing_trap") >> } }

ScoreTables ==
    { Criteria, Criteria \ {"pricing"}, Criteria \ {"uptime_reliability", "pricing"} }

InitScore ==
    /\ enable_dynamic_weighting = FALSE
    /\ pc = [r \in {1} |-> "adjusted"]
    /\ context \in [{1} -> SynthContexts]
    /\ \E a \in ScoreAnswers :
          research_findings = [r \in {1} |-> << MakeFindings(VendorNames[1], a, context[1]) >>]
    /\ candidates = [r \in {1} |-> NamesOf(research_findings[r])]
    /\ \E keys \in ScoreTables :
          LET initial == Restrict(get_initial_weights(context[1]), keys)
          IN  /\ initial_weights = [r \in {1} |-> NewTable(r, initial)]
              /\ final_weights = [r \in {1} |-> NewTable(r, initial)]
              /\ heap = NewObjects(1, initial)
    /\ weight_adjustments = [r \in {1} |-> <<>>]
    /\ current_weights = [r \in {1} |-> <<>>]
    /\ discoveries = [r \in {1} |-> <<>>]
    /\ idx = [r \in {1} |-> 0]
    /\ adjustments = [r \in {1} |-> <<>>]
    /\ IdleAfterAdjust({1})

NextScore ==
    \/ \E r \in Runs : ScoreVendors(r)

SpecScore == InitScore /\ [][NextScore]_vars

(***************************************************************************)
(* Properties of _score_from_analysis and _score_vendors (SpecScore).      *)
(***************************************************************************)
HasScores(r) == pc[r] = "narrative"

\* the findings a vendor score was computed from
FindingsOf(r, vs) ==
    research_findings[r][CHOOSE k \in DOMAIN research_findings[r] :
                            research_findings[r][k].vendor_name = vs.vendor_name]

Inverse(c) == c \in {"pricing", "integration_complexity"}

\* the occurrences of the keywords in the text, each occurrence counted
Occurrences(text, words) ==
    Cardinality({ iw \in (DOMAIN text) \X words : iw[2] \in SubstringsOf(Lower(text[iw[1]])) })

\* the number of keywords that occur in the text
KeywordsPresent(text, words) ==
    Cardinality({ w \in words : \E i \in DOMAIN text : w \in SubstringsOf(Lower(text[i])) })

\* the scoring rule on the counts of positive and negative keywords
RuleScore(text, inverse, positive, negative) ==
    LET favorable   == IF inverse THEN negative ELSE positive
        unfavorable == IF inverse THEN positive ELSE negative
    IN  IF text = <<>> THEN R(5)
        ELSE IF favorable > unfavorable THEN R(7 + Min(favorable, 3))
        ELSE IF unfavorable > favorable THEN R(5 - Min(unfavorable, 4))
        ELSE R(6)

\* C17 as stated: every criterion score lies in [1, 10], is 5 for an empty
\* text, and otherwise follows the scoring rule on the numbers of
\* occurrences of positive and of negative keywords in the text, swapped
\* when inverse is set.
C17_ScoreFromOccurrences ==
    \A r \in Runs :
        HasScores(r) =>
            \A i \in DOMAIN vendor_scores[r] :
                \A c \in Criteria :
                    LET text  == FindingsOf(r, vendor_scores[r][i]).analysis[c]
                        score == vendor_scores[r][i].criterion_scores[c]
                    IN  /\ RLe(R(1), score) /\ RLe(score, R(10))
                        /\ score = RuleScore(text, Inverse(c),
                                             Occurrences(text, positive_words),
                                             Occurrences(text, negative_words))

\* C17 amended: every criterion score lies in [1, 10], is 5 for an empty
\* text, and otherwise follows the scoring rule on the number of positive
\* keywords and the number of negative keywords that occur in the text
\* (a keyword counts once however often it occurs), swapped when inverse
\* is set.
C17_ScoreFromKeywordsPresent ==
    \A r \in Runs :
        HasScores(r) =>
            \A i \in DOMAIN vendor_scores[r] :
                \A c \in Criteria :
                    LET text  == FindingsOf(r, vendor_scores[r][i]).analysis[c]
                        score == vendor_scores[r][i].criterion_scores[c]
                    IN  /\ RLe(R(1), score) /\ RLe(score, R(10))
                        /\ score = RuleScore(text, Inverse(c),
                                             KeywordsPresent(text, positive_words),
                                             KeywordsPresent(text, negative_words))

\* a text in which one positive keyword occurs four times: 8 as it is, and
\* 4 with inverse set
C17_Witness ==
    \E r \in Runs :
        /\ HasScores(r)
        /\ \E i \in DOMAIN vendor_scores[r] :
              /\ FindingsOf(r, vendor_scores[r][i]).analysis["uptime_reliability"]
                    = <<"great", "great", "great", "great">>
              /\ vendor_scores[r][i].criterion_scores["uptime_reliability"] = R(8)
              /\ vendor_scores[r][i].criterion_scores["pricing"] = R(4)

\* C18: a candidate's weighted total is the sum of score times final weight
\* divided by 100 over the criteria that are in both the score map and the
\* weight table, pricing and integration_complexity being scored with
\* inverse set; a criterion that is not in the table contributes zero and
\* the scoring raises no error.
C18_WeightedTotal ==
    \A r \in Runs :
        HasScores(r) =>
            /\ error[r] = <<>>
            /\ Len(vendor_scores[r]) = Len(research_findings[r])
            /\ \A i \in DOMAIN vendor_scores[r] :
                  LET vs      == vendor_scores[r][i]
                      weights == ValuesOf(final_weights[r])
                      term    == [c \in Criteria |->
                                    IF c \in DOMAIN weights
                                    THEN RDiv(RMul(vs.criterion_scores[c], weights[c]), R(100))
                                    ELSE R(0)]
                  IN  /\ DOMAIN vs.criterion_scores = Criteria
                      /\ vs.weighted_score = SumOver(term, Criteria)
                      /\ vs.weighted_score = SumOver(term, Criteria \cap DOMAIN weights)
                      /\ \A c \in Criteria :
                            LET text == FindingsOf(r, vs).analysis[c]
                            IN  vs.criterion_scores[c] =
                                    RuleScore(text, Inverse(c),
                                              KeywordsPresent(text, positive_words),
                                              KeywordsPresent(text, negative_words))

\* a table without pricing, a pricing score of 8 and a total that is not 0
C18_Witness ==
    \E r \in Runs :
        /\ HasScores(r)
        /\ "pricing" \notin DOMAIN final_weights[r]
        /\ \E i \in DOMAIN vendor_scores[r] :
              /\ vendor_scores[r][i].criterion_scores["pricing"] = R(8)
              /\ RLt(R(0), vendor_scores[r][i].weighted_score)

(***************************************************************************)
(* Properties of _extract_strengths_weaknesses (SpecScore).                *)
(***************************************************************************)
\* the weakness entry of a hidden risk
RiskEntry(risk) == <<Title(risk.type)>> \o Prefix(risk.description, 80)

\* the number of score-derived weaknesses: the criteria among the three
\* lowest scores whose score is at most 5
ScoreDerived(vs) ==
    Min(3, Cardinality({ c \in Criteria : RLe(vs.criterion_scores[c], R(5)) }))

PlaceByWeight(weights, c) ==
    LET ks  == KeysInOrder(DOMAIN weights)
        pos == [k \in DOMAIN weights |-> CHOOSE i \in DOMAIN ks : ks[i] = k]
    IN  1 + Cardinality({ d \in DOMAIN weights :
                            \/ RLt(weights[c], weights[d])
                            \/ weights[d] = weights[c] /\ pos[d] < pos[c] })

\* the rows of the matrix that show criterion c
RowsOf(matrix, c) == { i \in DOMAIN matrix.rows : matrix.rows[i].criterion = Title(c) }

\* the criterion a row shows
CriterionOf(weights, row) == CHOOSE c \in DOMAIN weights : Title(c) = row.criterion

\* C20 as stated: the matrix has one row for every criterion of final
\* weight 1.0 or more and none for a criterion under 1.0, its rows are in
\* non-increasing order of final weight, and its last row shows every
\* candidate's weighted total.
C20_RowForEveryWeightedCriterion ==
    \A r \in Runs :
        HasScores(r) =>
            LET weights == ValuesOf(final_weights[r])
                matrix  == comparison_matrix[r]
            IN  /\ \A c \in DOMAIN weights :
                      Cardinality(RowsOf(matrix, c)) = IF RLe(R(1), weights[c]) THEN 1 ELSE 0
                /\ \A i, j \in DOMAIN matrix.rows :
                      i < j => RLe(weights[CriterionOf(weights, matrix.rows[j])],
                                   weights[CriterionOf(weights, matrix.rows[i])])
                /\ matrix.total = [j \in DOMAIN vendor_scores[r] |->
                                      Fmt1(vendor_scores[r][j].weighted_score)]

\* C20 amended: the matrix has one row for every criterion that is among
\* the first eight of the table in non-increasing order of final weight
\* (equal weights in table order) and has a final weight of 1.0 or more, and
\* no row for any other criterion; its rows are in that order, and its last
\* row shows every candidate's weighted total.
C20_RowForTopEightWeightedCriteria ==
    \A r \in Runs :
        HasScores(r) =>
            LET weights == ValuesOf(final_weights[r])
                matrix  == comparison_matrix[r]
            IN  /\ \A c \in DOMAIN weights :
                      Cardinality(RowsOf(matrix, c)) =
                          IF RLe(R(1), weights[c]) /\ PlaceByWeight(weights, c) <= 8
                          THEN 1 ELSE 0
                /\ \A i \in DOMAIN matrix.rows :
                      \E c \in DOMAIN weights : Title(c) = matrix.rows[i].criterion
                /\ \A i, j \in DOMAIN matrix.rows :
                      i < j => PlaceByWeight(weights, CriterionOf(weights, matrix.rows[i]))
                                 < PlaceByWeight(weights, CriterionOf(weights, matrix.rows[j]))
                /\ matrix.total = [j \in DOMAIN vendor_scores[r] |->
                                      Fmt1(vendor_scores[r][j].weighted_score)]

\* a table of ten criteria, nine of them at 1.0 or more: eight rows, none for
\* vendor_health, which is ninth, and none for compliance, which is under 1.0
C20_Witness ==
    \E r \in Runs :
        /\ HasScores(r)
        /\ DOMAIN final_weights[r] = Criteria
        /\ Len(comparison_matrix[r].rows) = 8
        /\ RLe(R(1), ValuesOf(final_weights[r])["vendor_health"])
        /\ RowsOf(comparison_matrix[r], "vendor_health") = {}
        /\ RLt(ValuesOf(final_weights[r])["compliance"], R(1))
        /\ RowsOf(comparison_matrix[r], "compliance") = {}
        /\ Len(comparison_matrix[r].total) = 1

(***************************************************************************)
(* Properties of _parse_recommendation (SpecSynth).                        *)
(***************************************************************************)
\* the vendor the text names: what follows the colon of its last line with
\* the marker RECOMMENDED VENDOR:, "" when it has no such line
NamedVendor(text) ==
    LET marked == { i \in DOMAIN text :
                      "RECOMMENDED VENDOR:" \in MarkersIn(StripLine(text[i])) }
    IN  IF marked = {} THEN "" ELSE AfterFirstColon(StripLine(text[MaxOf(marked)]))

\* C21 as stated: the recommended vendor is the name of the first entry of
\* the ranked vendor scores, whatever text the Narrative Oracle returned.
C21_RecommendedIsTopRanked ==
    \A r \in Runs :
        (pc[r] = "done" /\ vendor_scores[r] # <<>>) =>
            recommendation[r].recommended_vendor = vendor_scores[r][1].vendor_name

\* C21 amended: the recommended vendor is the vendor the text names on its
\* last RECOMMENDED VENDOR: line when that is not empty, and otherwise the
\* name of the first entry of the ranked vendor scores (empty when there is
\* no vendor score).
C21_RecommendedIsNamedOrTopRanked ==
    \A r \in Runs :
        pc[r] = "done" =>
            recommendation[r].recommended_vendor =
                IF NamedVendor(recommendation_text[r]) # ""
                THEN NamedVendor(recommendation_text[r])
                ELSE IF vendor_scores[r] # <<>> THEN vendor_scores[r][1].vendor_name
                ELSE ""

\* the text names B while A is ranked first with a higher weighted total
C21_Witness ==
    \E r \in Runs :
        /\ pc[r] = "done"
        /\ Len(vendor_scores[r]) = 2
        /\ vendor_scores[r][1].vendor_name = "A"
        /\ RLt(vendor_scores[r][2].weighted_score, vendor_scores[r][1].weighted_score)
        /\ NamedVendor(recommendation_text[r]) = "B"
        /\ recommendation[r].recommended_vendor = "B"

(***************************************************************************)
(* SpecNormalize: adjust_weights called on a caller's table whose weights  *)
(* are all 0 (ten entries, two entries, or none), or on the table of the   *)
(* context.                                                                *)
(***************************************************************************)
ZeroTables ==
    { [c \in keys |-> R(0)] : keys \in { Criteria, {"pricing", "compliance"}, {} } }

NormalizeContexts ==
    { Context(<<>>, <<>>, "technology"), Context(<<"uptime">>, <<"PCI-DSS">>, "technology") }

InitNormalize ==
    /\ enable_dynamic_weighting = TRUE
    /\ pc = [r \in {1} |-> "adjust_weights"]
    /\ context \in [{1} -> NormalizeContexts]
    /\ \E values \in ZeroTables \cup { get_initial_weights(context[1]) } :
          /\ initial_weights = [r \in {1} |-> NewTable(r, values)]
          /\ heap = NewObjects(1, values)
    /\ research_findings \in
          [{1} -> FindingsLists(MaxCandidates, AdjustAnswers, context[1])]
    /\ current_weights = [r \in {1} |-> <<>>]
    /\ discoveries = [r \in {1} |-> <<>>]
    /\ idx = [r \in {1} |-> 0]
    /\ adjustments = [r \in {1} |-> <<>>]
    /\ final_weights = [r \in {1} |-> <<>>]
    /\ weight_adjustments = [r \in {1} |-> <<>>]
    /\ candidates = [r \in {1} |-> NamesOf(research_findings[r])]
    /\ IdleAfterAdjust({1})

NextNormalize ==
    \/ \E r \in Runs : AdjustBegin(r)
    \/ \E r \in Runs : AdjustStep(r)
    \/ \E r \in Runs : AdjustFinish(r)

SpecNormalize == InitNormalize /\ [][NextNormalize]_vars

(***************************************************************************)
(* Properties of _normalize_weights (SpecNormalize).                       *)
(***************************************************************************)
\* the loop has ended and _normalize_weights has been called
NormalizeCalled(r) == enable_dynamic_weighting /\ pc[r] \in {"adjusted", "failed"}

\* the sum of the current weights when _normalize_weights was called
TotalBeforeNormalize(r) ==
    SumOver([c \in DOMAIN initial_weights[r] |-> Accumulated(r, c)],
            DOMAIN initial_weights[r])

OracleRequests(r) == attempt[r] + (IF pc[r] = "done" THEN 1 ELSE 0)

\* the vendor scores and the comparison matrix of run r are computed
ScoresAndMatrixReady(r) ==
    /\ pc[r] \in {"narrative", "done", "failed"}
    /\ Len(vendor_scores[r]) = Len(research_findings[r])
    /\ comparison_matrix[r] # <<>>
    /\ Len(comparison_matrix[r].total) = Len(vendor_scores[r])

Identified(r) == pc[r] # "start" /\ Len(pending[r]) = Len(candidates[r])

\* the research of every candidate of run r has returned and is joined
ResearchJoined(r) ==
    /\ Identified(r)
    /\ \A i \in DOMAIN pending[r] : pending[r][i] # <<>>
    /\ research_findings[r] = [i \in DOMAIN pending[r] |-> pending[r][i][1]]
    /\ NamesOf(research_findings[r]) = candidates[r]

WeightsComputed(r) == initial_weights[r] # <<>>

AdjustStarted(r) ==
    \/ pc[r] \in {"adjust_loop", "adjusted", "cancelled"}
    \/ current_weights[r] # <<>> \/ adjustments[r] # <<>> \/ final_weights[r] # <<>>

SynthesisStarted(r) ==
    \/ pc[r] \in {"narrative", "done"}
    \/ vendor_scores[r] # <<>> \/ comparison_matrix[r] # <<>> \/ attempt[r] > 0

\* C24: the phases of a run occur in the order identify, research, adjust
\* weights, synthesize: research has started only for identified
\* candidates; initial weights are computed, adjustments applied and
\* candidates scored only when the research of every candidate has returned
\* and is joined; adjustment works on computed initial weights and
\* synthesis on returned final weights.
C24_FanInBeforeCore ==
    \A r \in Runs :
        /\ pending[r] # <<>> => Identified(r)
        /\ (WeightsComputed(r) \/ AdjustStarted(r) \/ SynthesisStarted(r)) => ResearchJoined(r)
        /\ AdjustStarted(r) => WeightsComputed(r)
        /\ SynthesisStarted(r) => (AdjustStarted(r) /\ final_weights[r] # <<>>)

\* a completed run of two candidates with an adjustment and two scores
C24_Witness ==
    \E r \in Runs :
        /\ pc[r] = "done"
        /\ Len(candidates[r]) = 2
        /\ ResearchJoined(r)
        /\ weight_adjustments[r] # <<>>
        /\ Len(vendor_scores[r]) = 2

(***************************************************************************)
(* Properties of the strengths and weaknesses lists (SpecScore).           *)
(***************************************************************************)
\* the criterion an entry "Strong ..." or "Weaker ..." is about
EntryCriterion(entry) == CHOOSE c \in Criteria : Title(c) = entry[2]

ScoreDerivedEntry(entry) == entry[1] = "Weaker"

\* C25: strengths and weaknesses have at most 3 entries each; a strength is
\* a criterion with a score of 7.0 or more that at most two criteria
\* outscore; a score-derived weakness is a criterion with a score of 5.0 or
\* less that at most two criteria score below; no score-derived weakness
\* comes after a hidden-risk weakness.
C25_TopAndBottomThree ==
    \A r \in Runs :
        HasScores(r) =>
            \A i \in DOMAIN vendor_scores[r] :
                LET vs     == vendor_scores[r][i]
                    scores == vs.criterion_scores
                IN  /\ Len(vs.strengths) <= 3
                    /\ Len(vs.weaknesses) <= 3
                    /\ \A j \in DOMAIN vs.strengths :
                          LET c == EntryCriterion(vs.strengths[j])
                          IN  /\ vs.strengths[j][1] = "Strong"
                              /\ \E d \in Criteria : Title(d) = vs.strengths[j][2]
                              /\ RLe(R(7), scores[c])
                              /\ Cardinality({ d \in Criteria : RLt(scores[c], scores[d]) }) <= 2
                    /\ \A j \in DOMAIN vs.weaknesses :
                          ScoreDerivedEntry(vs.weaknesses[j]) =>
                              LET c == EntryCriterion(vs.weaknesses[j])
                              IN  /\ \E d \in Criteria : Title(d) = vs.weaknesses[j][2]
                                  /\ RLe(scores[c], R(5))
                                  /\ Cardinality({ d \in Criteria :
                                                     RLt(scores[d], scores[c]) }) <= 2
                    /\ \A j, k \in DOMAIN vs.weaknesses :
                          (j < k /\ ScoreDerivedEntry(vs.weaknesses[k]))
                              => ScoreDerivedEntry(vs.weaknesses[j])

\* a candidate with more than three criteria at 7.0 or more, three
\* strengths, and a score-derived weakness followed by a hidden risk
C25_Witness ==
    \E r \in Runs :
        /\ HasScores(r)
        /\ \E i \in DOMAIN vendor_scores[r] :
              LET vs == vendor_scores[r][i]
              IN  /\ Cardinality({ c \in Criteria : RLe(R(7), vs.criterion_scores[c]) }) > 3
                  /\ Len(vs.strengths) = 3
                  /\ Len(vs.weaknesses) >= 2
                  /\ ScoreDerivedEntry(vs.weaknesses[1])
                  /\ ~ScoreDerivedEntry(vs.weaknesses[Len(vs.weaknesses)])

Targeted(r) == { adjustments[r][j].criterion : j \in DOMAIN adjustments[r] }

C28_AdjustmentStrictlyIncreases ==
    \A r \in Runs : \A i \in DOMAIN adjustments[r] :
        RLt(adjustments[r][i].weight_before, adjustments[r][i].weight_after)

(***************************************************************************)
(* skill_handler: handle_message and the conversation states.  A message   *)
(* is a sequence of lower-case words; the orchestrator is initialized.     *)
(* handle_message runs without suspension up to                            *)
(* `await _orchestrator.run_evaluation(eval_context)`; other calls are     *)
(* handled while the run is awaited, and the rest of _handle_evaluation    *)
(* runs when the run returns or raises.                                    *)
(***************************************************************************)
\* keyword in msg_lower
InMessage(keyword, message) ==
    \E i \in DOMAIN message : keyword \in SubstringsOf(Lower(message[i]))

Found(keywords, message) == SelectSeq(keywords, LAMBDA k : InMessage(k, message))

parse_intent(message) ==
    IF Found(<<"help", "how to", "what can you">>, message) # <<>> THEN "help"
    ELSE IF InMessage("evaluate", message) THEN "evaluate"
    ELSE IF message # <<>> /\ message[1] = "compare" THEN "compare"
    ELSE IF InMessage(" vs ", message) \/ InMessage(" versus ", message) THEN "compare"
    ELSE IF message # <<>> /\ message[1] \in {"research", "analyze"} THEN "research"
    ELSE "general"

categories ==
    << "payment gateway", "crm", "database", "observability", "monitoring", "analytics",
       "cdn", "cms", "email service", "hosting", "storage", "authentication", "messaging",
       "video", "search", "cache" >>

tech_keywords ==
    << "python", "golang", "go", "javascript", "java", "ruby", "php", "aws", "azure",
       "gcp", "kubernetes", "docker", "react", "vue" >>

domains == << "fintech", "e-commerce", "healthcare", "saas", "enterprise", "startup" >>

regions == << "india", "us", "usa", "europe", "asia", "global" >>

\* region.title()
RegionTitle(region) ==
    CASE region = "india"  -> "India"
      [] region = "us"     -> "Us"
      [] region = "usa"    -> "Usa"
      [] region = "europe" -> "Europe"
      [] region = "asia"   -> "Asia"
      [] region = "global" -> "Global"

\* the entry of a dict under key, when the condition holds
Entry(condition, key, value) == IF condition THEN [k \in {key} |-> value] ELSE <<>>

\* dict.update: the entries of new replace and extend those of old
Update(old, new) ==
    [k \in DOMAIN old \cup DOMAIN new |-> IF k \in DOMAIN new THEN new[k] ELSE old[k]]

extract_evaluation_context(message) ==
    LET cats       == Found(categories, message)
        found_tech == Found(tech_keywords, message)
        doms       == Found(domains, message)
        regs       == Found(regions, message)
        scale      == IF InMessage("startup", message) \/ InMessage("early stage", message)
                      THEN <<"startup">>
                      ELSE IF InMessage("enterprise", message)
                              \/ InMessage("large scale", message)
                           THEN <<"enterprise">> ELSE <<>>
        priorities ==
            (IF InMessage("security", message) \/ InMessage("secure", message)
             THEN <<"security">> ELSE <<>>)
            \o (IF InMessage("uptime", message) \/ InMessage("reliability", message)
                THEN <<"uptime">> ELSE <<>>)
            \o (IF InMessage("cost", message) \/ InMessage("cheap", message)
                   \/ InMessage("affordable", message)
                THEN <<"cost-effective">> ELSE <<>>)
            \o (IF InMessage("integration", message) \/ InMessage("easy to integrate", message)
                THEN <<"easy integration">> ELSE <<>>)
        compliance ==
            (IF InMessage("pci", message) \/ InMessage("pci-dss", message)
             THEN <<"PCI-DSS">> ELSE <<>>)
            \o (IF InMessage("soc2", message) \/ InMessage("soc 2", message)
                THEN <<"SOC2">> ELSE <<>>)
            \o (IF InMessage("hipaa", message) THEN <<"HIPAA">> ELSE <<>>)
            \o (IF InMessage("rbi", message) THEN <<"RBI">> ELSE <<>>)
    IN  Update(Update(Update(Update(Update(Update(
            Entry(cats # <<>>, "category", Head(cats)),
            Entry(found_tech # <<>>, "tech_stack", found_tech)),
            Entry(doms # <<>>, "domain", Head(doms))),
            Entry(regs # <<>>, "region", RegionTitle(Head(regs)))),
            Entry(scale # <<>>, "scale", Head(scale))),
            Entry(priorities # <<>>, "priorities", priorities)),
            Entry(compliance # <<>>, "compliance", compliance))

\* data.get(key, default)
Get(data, key, default) == IF key \in DOMAIN data THEN data[key] ELSE default

\* the eval_context built from state["data"]
eval_context(data) ==
    [category   |-> data["category"],
     tech_stack |-> Get(data, "tech_stack", <<>>),
     domain     |-> Get(data, "domain", "technology"),
     region     |-> Get(data, "region", "Global"),
     scale      |-> Get(data, "scale", "startup"),
     priorities |-> Get(data, "priorities", <<>>),
     compliance |-> Get(data, "compliance", <<>>)]

\* a handle_message call that returned `response` without awaiting a run
Returned(session_id, message, response) ==
    [session_id |-> session_id, message |-> message, run |-> "none",
     context |-> <<>>, response |-> <<response>>]

\* the messages and the sessions of the calls
MaxCalls == 3

SessionIds == { "s1", "s2" }

Messages ==
    { <<"help">>, <<"hello">>, <<"evaluate">>, <<"evaluate", "crm">>,
      <<"database", "fintech">>, <<"evaluate", "golang", "uptime">> }

\* _handle_evaluation up to its return or its await
HandleEvaluation(message, session_id) ==
    LET created   == IF session_id \notin DOMAIN conversation_states
                     THEN [stage |-> "gathering", data |-> <<>>,
                           started_at |-> Len(calls) + 1]
                     ELSE conversation_states[session_id]
        extracted == extract_evaluation_context(message)
        state     == [created EXCEPT !.data = Update(created.data, extracted)]
        missing   == "category" \notin DOMAIN state.data
    IN  /\ conversation_states' =
              [s \in DOMAIN conversation_states \cup {session_id} |->
                  IF s = session_id THEN state ELSE conversation_states[s]]
        /\ calls' = Append(calls,
              IF missing
              THEN Returned(session_id, message, [kind |-> "ask_for_missing_info"])
              ELSE [session_id |-> session_id, message |-> message, run |-> "awaited",
                    context |-> <<eval_context(state.data)>>, response |-> <<>>])

\* handle_message(message, {"session_id": session_id})
HandleMessage(message, session_id) ==
    /\ Len(calls) < MaxCalls
    /\ LET intent == parse_intent(message)
       IN  IF \/ intent = "evaluate"
              \/ /\ intent = "general"
                 /\ "category" \in DOMAIN extract_evaluation_context(message)
           THEN HandleEvaluation(message, session_id)
           ELSE /\ calls' = Append(calls, Returned(session_id, message, [kind |-> intent]))
                /\ UNCHANGED conversation_states
    /\ UNCHANGED << enable_dynamic_weighting, pc, context, heap, research_findings,
                    initial_weights, adjustLocals, adjustResult, researchVars, synthVars,
                    error >>

\* run_evaluation returns the recommendation of call k: the state of the
\* session is deleted, and a missing state is a KeyError that the handler
\* of _handle_evaluation turns into the "Evaluation failed" reply
RunReturns(k) ==
    /\ k \in DOMAIN calls
    /\ calls[k].run = "awaited"
    /\ LET session_id == calls[k].session_id
       IN  IF session_id \in DOMAIN conversation_states
           THEN /\ conversation_states' =
                      [s \in DOMAIN conversation_states \ {session_id} |->
                          conversation_states[s]]
                /\ calls' = [calls EXCEPT ![k].run = "returned",
                                          ![k].response =
                                              <<[kind    |-> "recommendation",
                                                 context |-> calls[k].context[1]]>>]
           ELSE /\ calls' = [calls EXCEPT ![k].run = "returned",
                                          ![k].response =
                                              <<[kind  |-> "Evaluation failed",
                                                 error |-> <<"KeyError", session_id>>]>>]
                /\ UNCHANGED conversation_states
    /\ UNCHANGED << enable_dynamic_weighting, pc, context, heap, research_findings,
                    initial_weights, adjustLocals, adjustResult, researchVars, synthVars,
                    error >>

\* run_evaluation raises in call k
RunRaises(k) ==
    /\ k \in DOMAIN calls
    /\ calls[k].run = "awaited"
    /\ calls' = [calls EXCEPT ![k].run = "raised",
                              ![k].response = <<[kind  |-> "Evaluation failed",
                                                 error |-> <<"run_evaluation">>]>>]
    /\ UNCHANGED conversation_states
    /\ UNCHANGED << enable_dynamic_weighting, pc, context, heap, research_findings,
                    initial_weights, adjustLocals, adjustResult, researchVars, synthVars,
                    error >>

InitSession ==
    /\ enable_dynamic_weighting = TRUE
    /\ pc = <<>>
    /\ context = <<>>
    /\ heap = <<>>
    /\ research_findings = <<>>
    /\ initial_weights = <<>>
    /\ current_weights = <<>>
    /\ discoveries = <<>>
    /\ idx = <<>>
    /\ adjustments = <<>>
    /\ final_weights = <<>>
    /\ weight_adjustments = <<>>
    /\ candidates = <<>>
    /\ IdleAfterAdjust({})

NextSession ==
    \/ \E message \in Messages : \E session_id \in SessionIds :
          HandleMessage(message, session_id)
    \/ \E k \in 1..MaxCalls : RunReturns(k)
    \/ \E k \in 1..MaxCalls : RunRaises(k)

SpecSession == InitSession /\ [][NextSession]_vars

(***************************************************************************)
(* Properties of handle_message (SpecSession).                             *)
(***************************************************************************)
\* C29: under any interleaving of handle_message calls for the same
\* session, every call whose evaluation run completed successfully
\* returns the formatted recommendation, never the "Evaluation failed"
\* reply.
C29_SuccessfulRunReturnsRecommendation ==
    \A k \in DOMAIN calls :
        calls[k].run = "returned" => calls[k].response[1].kind = "recommendation"

\* the step handles an evaluation message of session s (a new call that
\* entered _handle_evaluation)
EvaluationMessage(s) ==
    /\ Len(calls') = Len(calls) + 1
    /\ calls'[Len(calls')].session_id = s
    /\ \/ calls'[Len(calls')].run = "awaited"
       \/ calls'[Len(calls')].response[1].kind = "ask_for_missing_info"

\* the step ends the run of a call of session s with the given outcome
RunEnds(s, outcome) ==
    \E k \in DOMAIN calls :
        /\ calls[k].session_id = s
        /\ calls[k].run = "awaited"
        /\ calls'[k].run = outcome

\* C30: the conversation state of a session is created by its first
\* evaluation message; each later evaluation message merges its extracted
\* fields into the state; the state is deleted exactly when an evaluation
\* run of the session completes successfully; while the category is
\* missing, and when a run fails, the state and its accumulated data
\* remain for the session's next message.
C30_StateLifecycle ==
    [][ \A s \in SessionIds :
          LET had     == s \in DOMAIN conversation_states
              has     == s \in DOMAIN conversation_states'
              message == calls'[Len(calls')].message
          IN  /\ (~had /\ has) =>
                    /\ EvaluationMessage(s)
                    /\ conversation_states'[s].data = extract_evaluation_context(message)
              /\ (had /\ EvaluationMessage(s)) =>
                    /\ has
                    /\ conversation_states'[s] =
                          [conversation_states[s] EXCEPT
                              !.data = Update(@, extract_evaluation_context(message))]
              /\ (had /\ ~has) => RunEnds(s, "returned")
              /\ RunEnds(s, "returned") => ~has
              /\ (had /\ RunEnds(s, "raised")) =>
                    (has /\ conversation_states'[s] = conversation_states[s])
              /\ (/\ had
                  /\ "category" \notin DOMAIN conversation_states[s].data
                  /\ ~EvaluationMessage(s)) =>
                    (has /\ conversation_states'[s] = conversation_states[s])
      ]_vars
====
